---- MODULE Spec2Model ----
(***************************************************************************)
(* State-machine model of the slotted-page B+tree (BTree / BTreeNode /     *)
(* BasicNode / FatSlot).  A page is a record holding the header fields of  *)
(* BasicNode and the slot array; the heap bytes a slot refers to are kept  *)
(* with the slot (field key = the bytes at [offset, offset+keyLen), field  *)
(* payload = the bytes that follow).  A payload is opaque to the engine    *)
(* (it is only moved by memcpy), so it is a record [len, val]: len bytes   *)
(* whose content is identified by val.  A child reference is the payload   *)
(* [len |-> childRefSize, val |-> page id].                                *)
(*                                                                         *)
(* assert() is compiled in or out depending on the build.  Operators       *)
(* compute what the code does when execution continues past an assertion,  *)
(* and collect the assertions (named by source line) that an assert-       *)
(* enabled build would have stopped at in the field failed of the node     *)
(* they work on; when the node is stored back into the tree they move to   *)
(* the failed set of the tree.  At a throw statement, and at an assertion  *)
(* whose failure means that memory outside the page's regions is read or   *)
(* written (FatalLabels), a call is not followed further: the state is     *)
(* marked halted.                                                          *)
(*                                                                         *)
(* The driver's merge hook BTreeNode::mergeChildrenCheck returns false     *)
(* without merging, so BTree::remove never merges nodes and                *)
(* BasicNode::mergeRightLeaf / mergeRightInner are never run.              *)
(***************************************************************************)
EXTENDS Integers, Sequences, FiniteSets, TLC

\* ------------------------------------------------------------------ constants
pageSize == 4096
maxKVSize == pageSize \div 4
headerSize == 96
slotSize == 10
hintCount == 16
childRefSize == 8
BasicLeaf == 0
BasicInner == 1
NULL == 0

\* value standing for the head sampled from a slot that is not live
StaleHead == -1

U16(x) == x % 65536
\* unsigned 32-bit arithmetic: a negative difference wraps to a value above
\* every page quantity.  The model checker's integers end at 2^31 - 1, so the
\* wrapped value is x + 2^31 - 1 instead of x + 2^32; both exceed every operand
\* they are compared with (all operands are below 2^17).  For the same reason
\* key bytes are below 128, which keeps head() below 2^31.
U32(x) == IF x < 0 THEN x + 2147483647 ELSE x

\* the unsigned value 2^32 - 1, written as the two's-complement integer with the
\* same 32 bits: sums and differences of such integers have the bits of the
\* unsigned results, and U32 orders a negative one above every page quantity
UINT_MAX == -1

min(a, b) == IF a < b THEN a ELSE b

\* ------------------------------------------------------------ byte helpers
RECURSIVE FirstDiff(_, _, _, _)
\* smallest i in lo..hi with a[i] # b[i], or 0 when there is none (found by
\* bisection on equal / unequal ranges)
FirstDiff(a, b, lo, hi) ==
    IF lo > hi THEN 0
    ELSE IF SubSeq(a, lo, hi) = SubSeq(b, lo, hi) THEN 0
    ELSE IF lo = hi THEN lo
    ELSE LET mid == (lo + hi) \div 2
         IN IF SubSeq(a, lo, mid) # SubSeq(b, lo, mid)
            THEN FirstDiff(a, b, lo, mid)
            ELSE FirstDiff(a, b, mid + 1, hi)

\* sign of memcmp(a, b, n)
memcmp(a, b, n) ==
    LET d == FirstDiff(a, b, 1, n)
    IN IF d = 0 THEN 0 ELSE IF a[d] < b[d] THEN -1 ELSE 1

\* byte-wise lexicographic order, shorter first on a common prefix
KeyLess(a, b) ==
    LET c == memcmp(a, b, min(Len(a), Len(b)))
    IN c < 0 \/ (c = 0 /\ Len(a) < Len(b))

\* bytes from position n+1 on (key + n in the code)
Drop(s, n) == SubSeq(s, n + 1, Len(s))
Take(s, n) == SubSeq(s, 1, n)

bswap16le(key) == key[1] * 256 + key[2]

\* head that loads the bytes without swapping them
headNoSwap(key, keyLength) ==
    IF keyLength = 0 THEN 0
    ELSE IF keyLength = 1 THEN key[1] * 16777216
    ELSE IF keyLength = 2 THEN (key[2] * 256 + key[1]) * 65536
    ELSE IF keyLength = 3 THEN (key[2] * 256 + key[1]) * 65536 + key[3] * 256
    ELSE key[4] * 16777216 + key[3] * 65536 + key[2] * 256 + key[1]

head(key, keyLength) ==
    IF keyLength = 0 THEN 0
    ELSE IF keyLength = 1 THEN key[1] * 16777216
    ELSE IF keyLength = 2 THEN bswap16le(key) * 65536
    ELSE IF keyLength = 3 THEN bswap16le(key) * 65536 + key[3] * 256
    ELSE key[1] * 16777216 + key[2] * 65536 + key[3] * 256 + key[4]

\* -------------------------------------------------------------------- FatSlot
FatSlotValid(s) ==
    /\ s.offset <= pageSize
    /\ s.keyLen <= pageSize
    /\ s.payloadLen <= pageSize
    /\ s.offset + s.keyLen + s.payloadLen <= pageSize

FatSlotWrite(offset, keyLen, payloadLen, hd, key, payload) ==
    [offset |-> U16(offset), keyLen |-> U16(keyLen), payloadLen |-> U16(payloadLen),
     head |-> hd, key |-> key, payload |-> payload]

\* content of slot-array memory that was never written
NoSlot == [offset |-> 0, keyLen |-> 0, payloadLen |-> 0, head |-> StaleHead,
           key |-> <<>>, payload |-> [len |-> 0, val |-> 0]]

\* ------------------------------------------------------------------ BasicNode
NoFence == [offset |-> 0, length |-> 0, key |-> <<>>]

\* a fresh node; failed collects the assertions (by source line) that failed
\* while the node was operated on, until the node is stored back into the tree
BasicNode(leaf) ==
    [tag |-> IF leaf THEN BasicLeaf ELSE BasicInner,
     upper |-> NULL,
     lowerFence |-> NoFence,
     upperFence |-> NoFence,
     count |-> 0,
     spaceUsed |-> 0,
     dataOffset |-> pageSize,
     prefixLength |-> 0,
     hint |-> [i \in 1..hintCount |-> 0],
     slots |-> <<>>,
     failed |-> {}]

Failing(n, labels) == [n EXCEPT !.failed = @ \cup labels]

isLeaf(n) == n.tag = BasicLeaf
isInner(n) == ~isLeaf(n)

getLowerFence(n) == n.lowerFence.key
getUpperFence(n) == n.upperFence.key
\* the prefix is read from the start of the lower fence
getPrefix(n) == Take(n.lowerFence.key, n.prefixLength)

\* slot(slotId) with slotId counted from 0; memory past the written slots is NoSlot
slot(n, slotId) == IF slotId < Len(n.slots) THEN n.slots[slotId + 1] ELSE NoSlot
slotEnd(n, cnt) == headerSize + cnt * slotSize

freeSpace(n) == U32(n.dataOffset - slotEnd(n, n.count))
freeSpaceAfterCompaction(n) == U32(pageSize - slotEnd(n, n.count) - n.spaceUsed)

\* write slot record s at index slotId (from 0), extending the array if needed
SetSlot(slots, slotId, s) ==
    [j \in 1..(IF Len(slots) > slotId THEN Len(slots) ELSE slotId + 1) |->
        IF j = slotId + 1 THEN s ELSE IF j <= Len(slots) THEN slots[j] ELSE NoSlot]

getChild(n, slotId) == IF slotId = n.count THEN n.upper ELSE slot(n, slotId).payload.val

\* full key of a slot: node prefix followed by the truncated key
FullKey(n, slotId) == getPrefix(n) \o slot(n, slotId).key

\* validate(): the node with the assertions of validate() that fail
validate(n) ==
    Failing(n, (IF \A i \in 0..(n.count - 1) : FatSlotValid(slot(n, i))
                THEN {} ELSE {"FatSlot.h:27"})
               \cup (IF \A i \in 1..(n.count - 1) : KeyLess(slot(n, i - 1).key, slot(n, i).key)
                     THEN {} ELSE {"BasicNode.cpp:84"}))

\* ---------------------------------------------------------------------- hints
\* assert(i == 0 || hint[i - 1] <= hint[i]) of makeHint / updateHint
hintSorted(n) == \A i \in 2..hintCount : n.hint[i - 1] <= n.hint[i]

makeHint(n) ==
    LET dist == n.count \div (hintCount + 1)
        m == [n EXCEPT !.hint = [i \in 1..hintCount |-> slot(n, dist * i).head]]
    IN Failing(m, IF hintSorted(m) THEN {} ELSE {"BasicNode.cpp:155"})

\* updateHint starting one hint later: begin = slotId / dist
updateHintLate(n, slotId) ==
    LET dist == n.count \div (hintCount + 1)
        begin == IF n.count > hintCount * 2 + 1
                    /\ ((n.count - 1) \div (hintCount + 1)) = dist
                    /\ (slotId \div dist) > 1
                 THEN slotId \div dist ELSE 0
        m == [n EXCEPT !.hint = [i \in 1..hintCount |->
                 IF i - 1 >= begin THEN slot(n, dist * i).head ELSE n.hint[i]]]
    IN Failing(m, IF hintSorted(m) THEN {} ELSE {"BasicNode.cpp:333"})

updateHint(n, slotId) ==
    LET dist == n.count \div (hintCount + 1)
        begin == IF n.count > hintCount * 2 + 1
                    /\ ((n.count - 1) \div (hintCount + 1)) = dist
                    /\ (slotId \div dist) > 1
                 THEN (slotId \div dist) - 1 ELSE 0
        m == [n EXCEPT !.hint = [i \in 1..hintCount |->
                 IF i - 1 >= begin THEN slot(n, dist * i).head ELSE n.hint[i]]]
    IN Failing(m, IF hintSorted(m) THEN {} ELSE {"BasicNode.cpp:333"})

\* first index (from 0) in from..hintCount-1 satisfying the loop's break
\* condition, hintCount if none
RECURSIVE hintScan(_, _, _, _)
hintScan(hint, keyHead, from, geq) ==
    IF from >= hintCount THEN hintCount
    ELSE IF (geq /\ hint[from + 1] >= keyHead) \/ (~geq /\ hint[from + 1] # keyHead) THEN from
    ELSE hintScan(hint, keyHead, from + 1, geq)

\* searchHint without the second loop: the interval ends after the first hint
\* that is >= keyHead
searchHintFirstHint(n, keyHead, lowerIn, upperIn) ==
    IF n.count > hintCount * 2
    THEN LET dist == upperIn \div (hintCount + 1)
             pos == hintScan(n.hint, keyHead, 0, TRUE)
         IN [lower |-> pos * dist,
             upper |-> IF pos < hintCount THEN (pos + 1) * dist ELSE upperIn]
    ELSE [lower |-> lowerIn, upper |-> upperIn]

searchHint(n, keyHead, lowerIn, upperIn) ==
    IF n.count > hintCount * 2
    THEN LET dist == upperIn \div (hintCount + 1)
             pos == hintScan(n.hint, keyHead, 0, TRUE)
             pos2 == hintScan(n.hint, keyHead, pos, FALSE)
         IN [lower |-> pos * dist,
             upper |-> IF pos2 < hintCount THEN (pos2 + 1) * dist ELSE upperIn]
    ELSE [lower |-> lowerIn, upper |-> upperIn]

\* ----------------------------------------------------------------- lowerBound
RECURSIVE binarySearch(_, _, _, _, _)
\* key is the truncated query key
binarySearch(n, key, keyHead, lower, upper) ==
    IF lower < upper
    THEN LET mid == ((upper - lower) \div 2) + lower
             s == slot(n, mid)
             keyLength == Len(key)
         IN IF keyHead < s.head THEN binarySearch(n, key, keyHead, lower, mid)
            ELSE IF keyHead > s.head THEN binarySearch(n, key, keyHead, mid + 1, upper)
            ELSE LET cmp == memcmp(key, s.key, min(keyLength, s.keyLen))
                 IN IF cmp < 0 THEN binarySearch(n, key, keyHead, lower, mid)
                    ELSE IF cmp > 0 THEN binarySearch(n, key, keyHead, mid + 1, upper)
                    ELSE IF keyLength < s.keyLen THEN binarySearch(n, key, keyHead, lower, mid)
                    ELSE IF keyLength > s.keyLen THEN binarySearch(n, key, keyHead, mid + 1, upper)
                    ELSE [pos |-> mid, found |-> TRUE, failed |-> {}]
    ELSE [pos |-> lower, found |-> FALSE, failed |-> {}]

\* the search after the prefix check; tkey is the key without the prefix
lowerBoundSearch(n, tkey, keyHead, h) == binarySearch(n, tkey, keyHead, h.lower, h.upper)

\* failed names the throw statement of the prefix check that was reached, if any
lowerBound(n, key) ==
    LET keyLength == Len(key)
        cmp == memcmp(key, getPrefix(n), min(keyLength, n.prefixLength))
    IN IF cmp < 0 THEN [pos |-> 0, found |-> FALSE, failed |-> {"BasicNode.cpp:178"}]
       ELSE IF cmp > 0 THEN [pos |-> n.count, found |-> FALSE, failed |-> {"BasicNode.cpp:180"}]
       ELSE IF keyLength < n.prefixLength
       THEN [pos |-> 0, found |-> FALSE, failed |-> {"BasicNode.cpp:182"}]
       ELSE lowerBoundSearch(n, Drop(key, n.prefixLength),
                             head(Drop(key, n.prefixLength), keyLength - n.prefixLength),
                             searchHint(n, head(Drop(key, n.prefixLength),
                                                keyLength - n.prefixLength), 0, n.count))

\* --------------------------------------------------------------------- fences
\* which = "lowerFence" or "upperFence"
insertFence(n, which, key) ==
    LET keyLength == Len(key)
        off == U16(n.dataOffset - keyLength)
    IN Failing([n EXCEPT !.dataOffset = off,
                         !.spaceUsed = U16(n.spaceUsed + keyLength),
                         ![which] = [offset |-> off, length |-> U16(keyLength), key |-> key]],
               IF freeSpace(n) >= keyLength THEN {} ELSE {"BasicNode.cpp:236"})

\* length of the longest common prefix of two byte strings
commonPrefixLen(a, b) ==
    LET lim == min(Len(a), Len(b))
        d == FirstDiff(a, b, 1, lim)
    IN IF d = 0 THEN lim ELSE d - 1

\* setFences without the loop that counts the common bytes
setFencesNoPrefix(n, lowerKey, upperKey) ==
    insertFence(insertFence(n, "lowerFence", lowerKey), "upperFence", upperKey)

setFences(n, lowerKey, upperKey) ==
    [insertFence(insertFence(n, "lowerFence", lowerKey), "upperFence", upperKey)
        EXCEPT !.prefixLength = commonPrefixLen(lowerKey, upperKey)]

\* ------------------------------------------------------------ storing entries
storeKeyValue(n, slotId, truncatedKey, payload) ==
    LET space == Len(truncatedKey) + payload.len
        off == U16(n.dataOffset - space)
        s == FatSlotWrite(off, Len(truncatedKey), payload.len,
                          head(truncatedKey, Len(truncatedKey)), truncatedKey, payload)
    IN Failing([n EXCEPT !.dataOffset = off,
                         !.spaceUsed = U16(n.spaceUsed + space),
                         !.slots = SetSlot(n.slots, slotId, s)],
               (IF slotId < n.count THEN {} ELSE {"BasicNode.cpp:131"})
               \cup (IF slotEnd(n, n.count) <= off THEN {} ELSE {"BasicNode.cpp:136"})
               \cup (IF FatSlotValid(s) THEN {} ELSE {"FatSlot.h:27"}))

\* copyKeyValue storing the truncated key of the source as it is
copyKeyValueTruncated(src, srcSlot, dst, dstSlot) ==
    storeKeyValue(dst, dstSlot, slot(src, srcSlot).key, slot(src, srcSlot).payload)

\* dst is the destination as it is when the entry is copied (count already raised)
copyKeyValue(src, srcSlot, dst, dstSlot) ==
    storeKeyValue(dst, dstSlot, Drop(getPrefix(src) \o slot(src, srcSlot).key, dst.prefixLength),
                  slot(src, srcSlot).payload)

\* copyGrow writing the head of the source slot instead of head(key, newKeyLength)
copyGrowKeepsHead(src, srcSlot, dst, dstSlot) ==
    LET diff == dst.prefixLength - src.prefixLength
        ss == slot(src, srcSlot)
        newKeyLength == U32(ss.keyLen - diff)
        space == U32(newKeyLength + ss.payloadLen)
        off == U16(dst.dataOffset - space)
        s == FatSlotWrite(off, newKeyLength, ss.payloadLen, ss.head, Drop(ss.key, diff),
                          ss.payload)
    IN Failing([dst EXCEPT !.dataOffset = off,
                           !.spaceUsed = U16(dst.spaceUsed + space),
                           !.slots = SetSlot(dst.slots, dstSlot, s)],
               (IF space <= freeSpace(dst) THEN {} ELSE {"BasicNode.cpp:96"})
               \cup (IF FatSlotValid(s) THEN {} ELSE {"FatSlot.h:27"}))

\* one iteration of the "prefix grows" loop of copyKeyValueRange
copyGrow(src, srcSlot, dst, dstSlot) ==
    LET diff == dst.prefixLength - src.prefixLength
        ss == slot(src, srcSlot)
        newKeyLength == U32(ss.keyLen - diff)
        space == U32(ss.keyLen - diff + ss.payloadLen)
        off == U16(dst.dataOffset - (ss.keyLen - diff + ss.payloadLen))
        key == Drop(ss.key, diff)
        s == FatSlotWrite(off, newKeyLength, ss.payloadLen,
                          head(key, min(newKeyLength, Len(key))), key, ss.payload)
    IN Failing([dst EXCEPT !.dataOffset = off,
                           !.spaceUsed = U16(dst.spaceUsed + (ss.keyLen - diff + ss.payloadLen)),
                           !.slots = SetSlot(dst.slots, dstSlot, s)],
               (IF space <= freeSpace(dst) THEN {} ELSE {"BasicNode.cpp:96"})
               \cup (IF FatSlotValid(s) THEN {} ELSE {"FatSlot.h:27"}))

RECURSIVE copyLoop(_, _, _, _, _, _)
\* entries i..srcCount-1 of the range, in order
copyLoop(src, dst, dstSlot, srcSlot, srcCount, i) ==
    IF i >= srcCount THEN dst
    ELSE copyLoop(src,
                  IF src.prefixLength <= dst.prefixLength
                  THEN copyGrow(src, srcSlot + i, dst, dstSlot + i)
                  ELSE copyKeyValue(src, srcSlot + i, dst, dstSlot + i),
                  dstSlot, srcSlot, srcCount, i + 1)

\* dst->validate() and the closing assertion of copyKeyValueRange
copyKeyValueRangeEnd(dst) ==
    Failing(validate(dst),
            IF dst.dataOffset >= slotEnd(dst, dst.count) THEN {} ELSE {"BasicNode.cpp:115"})

copyKeyValueRange(src, dst, dstSlot, srcSlot, srcCount) ==
    copyKeyValueRangeEnd(copyLoop(src, [dst EXCEPT !.count = U16(dst.count + srcCount)],
                                  dstSlot, srcSlot, srcCount, 0))

\* ----------------------------------------------------------------- compaction
\* the node after memcpy(this, &tmp), validate() and makeHint()
compactifyEnd(tmp, should) ==
    Failing(tmp, IF freeSpace(tmp) = should THEN {} ELSE {"BasicNode.cpp:168"})

\* compactify without "tmp.upper = upper"
compactifyWithoutUpper(n) ==
    compactifyEnd(
        makeHint(validate(
            [copyKeyValueRange(n, setFences(BasicNode(isLeaf(n)), getLowerFence(n), getUpperFence(n)),
                               0, 0, n.count)
                EXCEPT !.failed = @ \cup n.failed])),
        freeSpaceAfterCompaction(n))

compactify(n) ==
    compactifyEnd(
        makeHint(validate(
            [copyKeyValueRange(n, setFences(BasicNode(isLeaf(n)), getLowerFence(n), getUpperFence(n)),
                               0, 0, n.count)
                EXCEPT !.upper = n.upper, !.failed = @ \cup n.failed])),
        freeSpaceAfterCompaction(n))

spaceNeeded(n, keyLength, payloadLength) ==
    [value |-> U32(keyLength - n.prefixLength + payloadLength + slotSize),
     failed |-> IF keyLength > n.prefixLength THEN {} ELSE {"BasicNode.cpp:221"}]

\* requestSpaceFor compacting before it refuses
requestSpaceCompactsFirst(n, need) ==
    IF need <= freeSpace(n) THEN [ok |-> TRUE, node |-> n]
    ELSE [ok |-> need <= freeSpaceAfterCompaction(n), node |-> compactify(n)]

\* requestSpaceFor answering from freeSpaceAfterCompaction without compacting
requestSpaceNoCompact(n, need) ==
    [ok |-> need <= freeSpaceAfterCompaction(n), node |-> n]

\* ok is the return value, node the node afterwards
requestSpaceFor(n, need) ==
    IF need <= freeSpace(n) THEN [ok |-> TRUE, node |-> n]
    ELSE IF need <= freeSpaceAfterCompaction(n) THEN [ok |-> TRUE, node |-> compactify(n)]
    ELSE [ok |-> FALSE, node |-> n]

\* ------------------------------------------------------------ insert / remove
\* memmove(slot(slotId + 1), slot(slotId), ...): slots slotId.. move up by one
shiftUp(slots, slotId) == Take(slots, slotId) \o <<slot([slots |-> slots], slotId)>> \o Drop(slots, slotId)

\* BasicNode::insert from lowerBound on; m is the node after requestSpaceFor
insertAt(m, key, payload, lb) ==
    updateHint(
        validate(
            storeKeyValue(
                [m EXCEPT !.slots = shiftUp(m.slots, lb.pos),
                          !.count = U16(m.count + 1),
                          !.failed = @ \cup lb.failed
                              \cup (IF lb.pos <= m.count THEN {} ELSE {"BasicNode.cpp:315"})
                              \cup (IF m.count < pageSize THEN {} ELSE {"BasicNode.cpp:317"})
                              \cup (IF Len(key) >= m.prefixLength THEN {} ELSE {"BasicNode.cpp:319"})],
                lb.pos, Drop(key, m.prefixLength), payload)),
        lb.pos)

\* BasicNode::insert after requestSpaceFor returned rq
insertInto(rq, key, payload) ==
    IF rq.ok THEN [ok |-> TRUE, node |-> insertAt(rq.node, key, payload, lowerBound(rq.node, key))]
    ELSE rq

insert(n, key, payload) ==
    insertInto(requestSpaceFor(Failing(n, spaceNeeded(n, Len(key), payload.len).failed),
                               spaceNeeded(n, Len(key), payload.len).value),
               key, payload)

\* removeSlot without "spaceUsed -= slot(slotId)->getPayloadLen(this)"
removeSlotKeepsPayload(n, slotId) ==
    makeHint(validate(
        [n EXCEPT !.spaceUsed = U16(n.spaceUsed - slot(n, slotId).keyLen),
                  !.slots = Take(n.slots, slotId) \o Drop(n.slots, slotId + 1),
                  !.count = U16(n.count - 1)]))

removeSlot(n, slotId) ==
    makeHint(validate(
        [n EXCEPT !.spaceUsed = U16(U16(n.spaceUsed - slot(n, slotId).keyLen)
                                    - slot(n, slotId).payloadLen),
                  !.slots = Take(n.slots, slotId) \o Drop(n.slots, slotId + 1),
                  !.count = U16(n.count - 1)]))

\* BasicNode::remove after lowerBound returned lb
removeAt(n, lb) ==
    IF lb.found THEN [ok |-> TRUE, node |-> removeSlot(Failing(n, lb.failed), lb.pos)]
    ELSE [ok |-> FALSE, node |-> Failing(n, lb.failed)]

remove(n, key) == removeAt(n, lowerBound(n, key))

\* ------------------------------------------------------------------ separator
commonPrefix(n, slotA, slotB) == commonPrefixLen(slot(n, slotA).key, slot(n, slotB).key)

RECURSIVE sepScan(_, _, _, _)
\* the for loop of findSeparator
sepScan(n, bestSlot, upper, bestPrefixLength) ==
    IF bestSlot < upper /\ commonPrefix(n, bestSlot, 0) = bestPrefixLength
    THEN sepScan(n, bestSlot + 1, upper, bestPrefixLength)
    ELSE bestSlot

\* the slot choice for count > 16 taking the lowest slot of the window with the
\* longest common prefix
findSeparatorSlotOfMaximum(n) ==
    IF n.count > 16
    THEN LET lower == (n.count \div 2) - (n.count \div 16)
             upper == n.count \div 2
         IN CHOOSE i \in lower..(upper - 1) :
                /\ \A j \in lower..(upper - 1) : commonPrefix(n, j, 0) <= commonPrefix(n, i, 0)
                /\ \A j \in lower..(i - 1) : commonPrefix(n, j, 0) < commonPrefix(n, i, 0)
    ELSE IF n.count = 0 THEN 0 ELSE (n.count - 1) \div 2

\* "find good separator slot"; (count - 1) / 2 is an int division, which
\* truncates towards zero
findSeparatorSlot(n) ==
    IF n.count > 16
    THEN LET lower == (n.count \div 2) - (n.count \div 16)
             upper == n.count \div 2
             bestPrefixLength == commonPrefix(n, lower, 0)
         IN IF bestPrefixLength # commonPrefix(n, upper - 1, 0)
            THEN sepScan(n, lower + 1, upper, bestPrefixLength)
            ELSE lower
    ELSE IF n.count = 0 THEN 0 ELSE (n.count - 1) \div 2

\* "try to truncate separator" for the slot found
findSeparatorAt(n, bestSlot, common) ==
    IF bestSlot + 1 < n.count /\ slot(n, bestSlot).keyLen > common
       /\ slot(n, bestSlot + 1).keyLen > common + 1
    THEN [length |-> n.prefixLength + common + 1, slot |-> bestSlot, isTruncated |-> 1]
    ELSE [length |-> n.prefixLength + slot(n, bestSlot).keyLen, slot |-> bestSlot,
          isTruncated |-> 0]

\* isTruncated is 0 or 1, as it is used in getSep
findSeparator(n) ==
    IF isInner(n)
    THEN [length |-> n.prefixLength + slot(n, n.count \div 2).keyLen, slot |-> n.count \div 2,
          isTruncated |-> 0]
    ELSE findSeparatorAt(n, findSeparatorSlot(n),
                         commonPrefix(n, findSeparatorSlot(n), findSeparatorSlot(n) + 1))

\* the assertions of findSeparator and of the commonPrefix call for the
\* truncation that fail
findSeparatorFailed(n, sepInfo) ==
    (IF n.count > 1 THEN {} ELSE {"BasicNode.cpp:264"})
    \cup (IF isInner(n) \/ sepInfo.slot + 1 < n.count THEN {} ELSE {"BasicNode.cpp:253"})

\* getSep that takes the bytes from slot info.slot also when isTruncated
getSepOfPivot(n, info) ==
    getPrefix(n) \o Take(slot(n, info.slot).key, info.length - n.prefixLength)

getSep(n, info) ==
    getPrefix(n) \o Take(slot(n, info.slot + info.isTruncated).key, info.length - n.prefixLength)


\* ----------------------------------------------------------------- BTreeNode
\* throw statements (a throw without an active exception ends the process)
ThrowLabels == {"BasicNode.cpp:178", "BasicNode.cpp:180", "BasicNode.cpp:182",
                "btree.cpp:31", "btree.cpp:62", "btree.cpp:79", "BTreeNode.cpp:57",
                "BTreeNode.cpp:85"}

\* Failures past which the execution is not followed: a throw, or an assertion
\* whose failure means that memory outside the live slots or the free space of
\* a page is read or written when the build has assertions compiled out.
FatalLabels == ThrowLabels \cup {"BasicNode.cpp:27", "BasicNode.cpp:96", "BasicNode.cpp:115",
                                 "BasicNode.cpp:131", "BasicNode.cpp:136", "BasicNode.cpp:236",
                                 "BasicNode.cpp:366", "BasicNode.cpp:407", "FatSlot.h:27", "btree.cpp:44",
                                 "std::bad_alloc"}

Fatal(failed) == failed \cap FatalLabels # {}

\* A tree value T is [root, pages, failed, limit]: the root reference, the
\* allocated pages by page id, the assertions / throw statements reached so
\* far, and the number of pages that the allocator can provide in all.
\* page ids are given in ascending order; the id behind the highest one in use
NewPage(pages) ==
    IF DOMAIN pages = {} THEN 1
    ELSE (CHOOSE i \in DOMAIN pages : \A j \in DOMAIN pages : j <= i) + 1

\* operator new returns a page; otherwise it throws std::bad_alloc, which no
\* function of the tree catches, so the call ends there (label "std::bad_alloc")
CanAllocate(T) == Cardinality(DOMAIN T.pages) < T.limit

SetPage(pages, id, n) == [i \in DOMAIN pages \cup {id} |-> IF i = id THEN n ELSE pages[i]]

\* page id becomes node n; what failed on n is recorded with the tree
Put(T, id, n) ==
    [T EXCEPT !.pages = SetPage(@, id, [n EXCEPT !.failed = {}]), !.failed = @ \cup n.failed]

makeLeaf == BasicNode(TRUE)

makeInner(child) == [BasicNode(FALSE) EXCEPT !.upper = child]

RECURSIVE descend(_, _, _, _, _, _, _)
RECURSIVE descendInto(_, _, _, _, _, _)
\* one iteration of the while loop; lb is the result of lowerBound
descendInto(pages, node, key, stopAt, failed, lb) ==
    descend(pages, getChild(pages[node], lb.pos), key, stopAt, node, lb.pos,
            failed \cup lb.failed)

\* early_stop(n) is n = stopAt; parent and outPos are the values so far
descend(pages, node, key, stopAt, parent, outPos, failed) ==
    IF isInner(pages[node]) /\ node # stopAt
    THEN descendInto(pages, node, key, stopAt, failed, lowerBound(pages[node], key))
    ELSE [node |-> node, parent |-> parent, pos |-> outPos, failed |-> failed]

spaceNeededInner(n, keyLength) ==
    [value |-> spaceNeeded(n, keyLength, childRefSize).value,
     failed |-> spaceNeeded(n, keyLength, childRefSize).failed
                \cup (IF n.tag = BasicInner THEN {} ELSE {"BTreeNode.cpp:57"})]

insertInner(n, key, child) ==
    insert(Failing(n, IF n.tag = BasicInner THEN {} ELSE {"BTreeNode.cpp:85"}),
           key, [len |-> childRefSize, val |-> child])

isUnderfull(n) == freeSpaceAfterCompaction(n) >= (pageSize * 3) \div 4

\* a dispatcher that reports a merge and carries none out
mergeChildrenCheckTrue(T, parent, pos) == [ok |-> TRUE, T |-> T]

\* BTreeNode::mergeChildrenCheck: "return false; // TODO perform merge"
mergeChildrenCheck(T, parent, pos) == [ok |-> FALSE, T |-> T]

\* ------------------------------------------------------- BasicNode: merging
\* spaceUpperBound of mergeRightLeaf / mergeRightInner, sepNeed being the
\* space for the separator (0 in a leaf).  The sum is unsigned: it is computed
\* in the integers and wrapped once, which is the same modulo 2^32.
mergeBound(this, right, tmp, sepNeed) ==
    U32(this.spaceUsed + right.spaceUsed + slotEnd(this, this.count + right.count)
        + (this.prefixLength - tmp.prefixLength) * this.count
        + (right.prefixLength - tmp.prefixLength) * right.count
        + sepNeed)

\* tmp after setFences, of the kind of this
mergeTmp(this, right) ==
    setFences(BasicNode(isLeaf(this)), getLowerFence(this), getUpperFence(right))

\* memcpy(right, &tmp, sizeof(BasicNode)): the page of right becomes tmp; what
\* failed on this, right and tmp is kept with it
mergedInto(this, right, tmp) == Failing(tmp, this.failed \cup right.failed)

\* mergeRightLeaf from copyKeyValueRange on
mergeLeafCopy(this, right, tmp) ==
    mergedInto(this, right,
        validate(makeHint(
            copyKeyValueRange(right, copyKeyValueRange(this, tmp, 0, 0, this.count),
                              this.count, 0, right.count))))

\* ok is the return value, node the page of right afterwards
mergeRightLeafWith(this, right, tmp) ==
    IF mergeBound(this, right, tmp, 0) > pageSize
    THEN [ok |-> FALSE, node |-> right, failed |-> this.failed \cup tmp.failed]
    ELSE [ok |-> TRUE, node |-> mergeLeafCopy(this, right, tmp), failed |-> {}]

mergeRightLeaf(this, right) ==
    mergeRightLeafWith(Failing(this, IF this.tag = BasicLeaf THEN {} ELSE {"BasicNode.cpp:387"}),
                       Failing(right, IF right.tag = BasicLeaf THEN {} ELSE {"BasicNode.cpp:388"}),
                       mergeTmp(this, right))

\* tmp.count++ and tmp.storeKeyValue(count, sepKey + (tmp.prefixLength -
\* sepPrefixLen), ..., &upper, sizeof(upper)); sepKey holds the
\* sepRemainingLen bytes of the separator behind the parent's prefix
mergeStoreSeparator(this, tmp, sepKey, sepPrefixLen) ==
    storeKeyValue([tmp EXCEPT !.count = U16(@ + 1)], this.count,
                  Drop(sepKey, tmp.prefixLength - sepPrefixLen),
                  [len |-> childRefSize, val |-> this.upper])

\* mergeRightInner from the second copyKeyValueRange on; t is tmp with the
\* entries of this and the separator
mergeInnerRight(this, right, t) ==
    mergedInto(this, right,
        makeHint([copyKeyValueRange(right, t, t.count, 0, right.count)
                     EXCEPT !.upper = right.upper]))

\* mergeRightInner from the first copyKeyValueRange on
mergeInnerCopy(this, sepKey, sepPrefixLen, right, tmp) ==
    mergeInnerRight(this, right,
        mergeStoreSeparator(this, copyKeyValueRange(this, tmp, 0, 0, this.count),
                            sepKey, sepPrefixLen))

\* sn is tmp.spaceNeeded(sepPrefixLen + sepRemainingLen, sizeof(BTreeNode *)),
\* sepNeed its value before it wraps.
\* When assert(tmp.prefixLength >= sepPrefixLen) fails, the separator bytes
\* would be read from before sepKey: the call is not followed further.
mergeRightInnerWith(this, sepKey, sepPrefixLen, right, tmp, sn, sepNeed) ==
    IF tmp.prefixLength < sepPrefixLen
    THEN [ok |-> FALSE, node |-> right,
          failed |-> this.failed \cup tmp.failed \cup sn.failed \cup {"BasicNode.cpp:366"}]
    ELSE IF mergeBound(this, right, tmp, sepNeed) > pageSize
    THEN [ok |-> FALSE, node |-> right, failed |-> this.failed \cup tmp.failed \cup sn.failed]
    ELSE [ok |-> TRUE,
          node |-> mergeInnerCopy(this, sepKey, sepPrefixLen, right, Failing(tmp, sn.failed)),
          failed |-> {}]

mergeRightInnerTmp(this, sepKey, sepPrefixLen, sepRemainingLen, right, tmp) ==
    mergeRightInnerWith(this, sepKey, sepPrefixLen, right, tmp,
                        spaceNeeded(tmp, sepPrefixLen + sepRemainingLen, childRefSize),
                        sepPrefixLen + sepRemainingLen - tmp.prefixLength + childRefSize + slotSize)

mergeRightInner(this, sepKey, sepPrefixLen, sepRemainingLen, right) ==
    mergeRightInnerTmp(Failing(this, IF this.tag = BasicInner THEN {} ELSE {"BasicNode.cpp:362"}),
                       sepKey, sepPrefixLen, sepRemainingLen,
                       Failing(right, IF right.tag = BasicInner THEN {} ELSE {"BasicNode.cpp:363"}),
                       mergeTmp(this, right))

\* BTreeNode::mergeRight, which BasicNode::mergeChildrenCheck calls on a child:
\* the operation branches on the tag of the node
mergeRight(this, sepKey, sepPrefixLen, sepRemainingLen, right) ==
    IF this.tag = BasicLeaf THEN mergeRightLeaf(this, right)
    ELSE mergeRightInner(this, sepKey, sepPrefixLen, sepRemainingLen, right)

\* delete of page id
DeletePage(pages, id) == [i \in DOMAIN pages \ {id} |-> pages[i]]

\* mergeChildrenMerged with delete getChild(pos) ahead of the test of the result
mergeChildrenFreesFirst(T, parent, pos, m) ==
    IF m.ok
    THEN [ok |-> TRUE,
          T |-> Put(Put([T EXCEPT !.pages = DeletePage(@, getChild(T.pages[parent], pos))],
                        getChild(T.pages[parent], pos + 1), m.node),
                    parent, validate(removeSlot(T.pages[parent], pos)))]
    ELSE [ok |-> FALSE,
          T |-> [T EXCEPT !.pages = DeletePage(@, getChild(T.pages[parent], pos)),
                          !.failed = @ \cup m.failed]]

\* BasicNode::mergeChildrenCheck after mergeRight returned m: on success the
\* page of the right child holds m.node, the left child is deleted and the
\* parent loses slot pos
mergeChildrenMerged(T, parent, pos, m) ==
    IF m.ok
    THEN [ok |-> TRUE,
          T |-> Put(Put([T EXCEPT !.pages = DeletePage(@, getChild(T.pages[parent], pos))],
                        getChild(T.pages[parent], pos + 1), m.node),
                    parent, validate(removeSlot(T.pages[parent], pos)))]
    ELSE [ok |-> FALSE, T |-> [T EXCEPT !.failed = @ \cup m.failed]]

mergeChildrenAt(T, parent, pos) ==
    mergeChildrenMerged(T, parent, pos,
        mergeRight(T.pages[getChild(T.pages[parent], pos)],
                   slot(T.pages[parent], pos).key, T.pages[parent].prefixLength,
                   slot(T.pages[parent], pos).keyLen,
                   T.pages[getChild(T.pages[parent], pos + 1)]))

\* BasicNode::mergeChildrenCheck(pos) on the inner node parent
BasicNode_mergeChildrenCheck(T, parent, pos) ==
    IF pos > T.pages[parent].count
    THEN [ok |-> FALSE, T |-> [T EXCEPT !.failed = @ \cup {"BasicNode.cpp:407"}]]
    ELSE IF pos = T.pages[parent].count
    THEN IF T.pages[parent].count = 0 THEN [ok |-> FALSE, T |-> T]
         ELSE mergeChildrenAt(T, parent, pos - 1)
    ELSE mergeChildrenAt(T, parent, pos)

\* ------------------------------------------------------- BasicNode::splitNode
\* splitLeft where a leaf copies sepInfo.slot entries, as an inner node does
splitLeftWithoutPivot(this, sepInfo) ==
    copyKeyValueRange(this,
                      setFences(BasicNode(isLeaf(this)), getLowerFence(this), getSep(this, sepInfo)),
                      0, 0, sepInfo.slot)

\* nodeLeft with its fences and entries
splitLeft(this, sepInfo) ==
    copyKeyValueRange(this,
                      setFences(BasicNode(isLeaf(this)), getLowerFence(this), getSep(this, sepInfo)),
                      0, 0, IF isLeaf(this) THEN sepInfo.slot + 1 ELSE sepInfo.slot)

\* splitRight where an inner node copies from slot nodeLeft.count on, as a leaf
\* does: the separator slot stays in nodeRight
splitRightKeepsSeparator(this, sepInfo, nodeLeft) ==
    copyKeyValueRange(this,
                      setFences(BasicNode(isLeaf(this)), getSep(this, sepInfo), getUpperFence(this)),
                      0, nodeLeft.count, U32(this.count - nodeLeft.count))

\* nodeRight with its fences and entries
splitRight(this, sepInfo, nodeLeft) ==
    copyKeyValueRange(this,
                      setFences(BasicNode(isLeaf(this)), getSep(this, sepInfo), getUpperFence(this)),
                      0,
                      IF isLeaf(this) THEN nodeLeft.count ELSE nodeLeft.count + 1,
                      IF isLeaf(this) THEN U32(this.count - nodeLeft.count)
                      ELSE U32(this.count - nodeLeft.count - 1))

\* splitFinish with "nodeLeft->upper = upper": both nodes get the upper of this
splitFinishSharedUpper(T, node, left, this, nodeLeft, nodeRight) ==
    Put(Put(T, left, makeHint(IF isLeaf(this) THEN nodeLeft
                              ELSE [nodeLeft EXCEPT !.upper = this.upper])),
        node, makeHint(IF isLeaf(this) THEN nodeRight
                       ELSE [nodeRight EXCEPT !.upper = this.upper]))

\* upper of both nodes, makeHint, and nodeRight copied over this
splitFinish(T, node, left, this, nodeLeft, nodeRight) ==
    Put(Put(T, left, makeHint(IF isLeaf(this) THEN nodeLeft
                              ELSE [nodeLeft EXCEPT !.upper = getChild(this, nodeLeft.count)])),
        node, makeHint(IF isLeaf(this) THEN nodeRight
                       ELSE [nodeRight EXCEPT !.upper = this.upper]))

splitCopy(T, node, left, this, sepInfo, nodeLeft) ==
    splitFinish(T, node, left, this, nodeLeft, splitRight(this, sepInfo, nodeLeft))

\* from the separator on; ins is the result of parent->insertInner
splitInsert(T, node, parent, sepInfo, ins) ==
    splitCopy(Put([T EXCEPT !.failed = @ \cup (IF sepInfo.slot > 0 THEN {} ELSE {"BasicNode.cpp:26"})
                                         \cup (IF ins.ok THEN {} ELSE {"BasicNode.cpp:35"})],
                  parent, ins.node),
              node, NewPage(T.pages), T.pages[node], sepInfo, splitLeft(T.pages[node], sepInfo))

\* splitRefused after "new BasicNode(isLeaf())": the sibling page is allocated
\* before the parent is asked for space
splitRefusedAfterAlloc(T, node, sepInfo, rq) ==
    [ok |-> FALSE,
     T |-> [T EXCEPT !.pages = SetPage(@, NewPage(@), BasicNode(isLeaf(T.pages[node]))),
                     !.failed = @ \cup findSeparatorFailed(T.pages[node], sepInfo)
                                  \cup rq.node.failed]]

\* "return false": requestSpaceFor found no room and left the parent as it was
splitRefused(T, node, sepInfo, rq) ==
    [ok |-> FALSE,
     T |-> [T EXCEPT !.failed = @ \cup findSeparatorFailed(T.pages[node], sepInfo)
                                  \cup rq.node.failed]]

\* after parent->requestSpaceFor returned rq
splitWith(T, node, parent, sepInfo, rq) ==
    IF ~rq.ok
    THEN splitRefused(T, node, sepInfo, rq)
    ELSE IF sepInfo.slot >= T.pages[node].count
    \* count = 0: the copies would run over slots that do not exist
    THEN [ok |-> TRUE,
          T |-> [T EXCEPT !.failed = @ \cup findSeparatorFailed(T.pages[node], sepInfo)
                                       \cup rq.node.failed
                                       \cup {"BasicNode.cpp:26", "BasicNode.cpp:27"}]]
    ELSE IF ~CanAllocate(T)
    \* new BasicNode(isLeaf()) throws: the parent is as requestSpaceFor left it
    THEN [ok |-> TRUE,
          T |-> Put([T EXCEPT !.failed = @ \cup findSeparatorFailed(T.pages[node], sepInfo)
                                           \cup (IF sepInfo.slot > 0 THEN {}
                                                 ELSE {"BasicNode.cpp:26"})
                                           \cup {"std::bad_alloc"}],
                    parent, rq.node)]
    ELSE [ok |-> TRUE,
          T |-> splitInsert([T EXCEPT !.failed = @ \cup findSeparatorFailed(T.pages[node], sepInfo)],
                            node, parent, sepInfo,
                            insertInner(rq.node, getSep(T.pages[node], sepInfo), NewPage(T.pages)))]

\* BasicNode::splitNode of page node with parent page parent
BasicNode_splitNode(T, node, parent) ==
    splitWith(T, node, parent, findSeparator(T.pages[node]),
              requestSpaceFor(
                  Failing(T.pages[parent],
                          spaceNeededInner(T.pages[parent],
                                           findSeparator(T.pages[node]).length).failed),
                  spaceNeededInner(T.pages[parent], findSeparator(T.pages[node]).length).value))


\* ---------------------------------------------------------------------- BTree
\* bound on the restarts of one BTree::insert call that the model follows
MaxRestarts == 8

NoPayload == [len |-> 0, val |-> 0]

\* the switch of BTree::lookup on the node reached; lb is the result of lowerBound
lookupLeaf(n, lb, failed) ==
    [found |-> lb.found,
     payload |-> IF lb.found THEN slot(n, lb.pos).payload ELSE NoPayload,
     failed |-> failed \cup lb.failed \cup (IF n.tag = BasicLeaf THEN {} ELSE {"btree.cpp:31"})]

lookupAt(T, key, d) == lookupLeaf(T.pages[d.node], lowerBound(T.pages[d.node], key), d.failed)

BTree_lookup(T, key) == lookupAt(T, key, descend(T.pages, T.root, key, NULL, NULL, 0, {}))

RECURSIVE BTree_splitNode(_, _, _, _)
RECURSIVE ensureSpace(_, _, _)

\* ensureSpace after descend returned d
ensureSpaceAt(T, toSplit, key, d) ==
    IF d.node # toSplit \/ Fatal(d.failed)
    THEN [T EXCEPT !.failed = @ \cup d.failed
                       \cup (IF d.node = toSplit THEN {} ELSE {"btree.cpp:44"})]
    ELSE BTree_splitNode([T EXCEPT !.failed = @ \cup d.failed], toSplit, d.parent, key)

ensureSpace(T, toSplit, key) ==
    ensureSpaceAt(T, toSplit, key, descend(T.pages, T.root, key, toSplit, NULL, 0, {}))

\* BTree::splitNode after node->splitNode(parent) returned r
splitNodeEnd(r, parent, key) ==
    IF ~r.ok /\ ~Fatal(r.T.failed) THEN ensureSpace(r.T, parent, key) ELSE r.T

\* BTree::splitNode making a new root whether or not the node has a parent
BTree_splitNodeNewRoot(T, node, parent, key) ==
    IF ~CanAllocate(T)
    THEN [T EXCEPT !.failed = @ \cup {"std::bad_alloc"}]
    ELSE splitNodeEnd(BasicNode_splitNode(
                          [T EXCEPT !.pages = SetPage(T.pages, NewPage(T.pages), makeInner(node)),
                                    !.root = NewPage(T.pages)],
                          node, NewPage(T.pages)),
                      NewPage(T.pages), key)

BTree_splitNode(T, node, parent, key) ==
    IF parent = NULL /\ ~CanAllocate(T)
    \* makeInner throws: root is not assigned
    THEN [T EXCEPT !.failed = @ \cup {"std::bad_alloc"}]
    ELSE IF parent = NULL
    THEN splitNodeEnd(BasicNode_splitNode(
                          [T EXCEPT !.pages = SetPage(T.pages, NewPage(T.pages), makeInner(node)),
                                    !.root = NewPage(T.pages)],
                          node, NewPage(T.pages)),
                      NewPage(T.pages), key)
    ELSE splitNodeEnd(BasicNode_splitNode(T, node, parent), parent, key)

RECURSIVE BTree_insertLoop(_, _, _, _)

\* insertRestart without the call "insert(key, keyLength, payload, payloadLength)"
insertNoRestart(T, key, payload, restarts) ==
    [T |-> T, done |-> ~Fatal(T.failed), restarts |-> restarts]

\* BTree::insert after splitNode; T is the tree the call restarts on
insertRestart(T, key, payload, restarts) ==
    IF Fatal(T.failed) THEN [T |-> T, done |-> FALSE, restarts |-> restarts]
    ELSE BTree_insertLoop(T, key, payload, restarts + 1)

\* the return or the split and restart; T holds the node after node->insert
insertLeaf(T, key, payload, restarts, d, ok) ==
    IF ok THEN [T |-> T, done |-> ~Fatal(T.failed), restarts |-> restarts]
    ELSE IF restarts >= MaxRestarts THEN [T |-> T, done |-> FALSE, restarts |-> restarts]
    ELSE insertRestart(BTree_splitNode(T, d.node, d.parent, key), key, payload, restarts)

\* BTree::insert after node->insert returned r
insertAtLeaf(T, key, payload, restarts, d, r) ==
    insertLeaf(Put([T EXCEPT !.failed = @ \cup d.failed], d.node, r.node),
               key, payload, restarts, d, r.ok)

\* BTree::insert after descend returned d
insertDescended(T, key, payload, restarts, d) ==
    IF T.pages[d.node].tag # BasicLeaf \/ Fatal(d.failed)
    THEN [T |-> [T EXCEPT !.failed = @ \cup d.failed
                              \cup (IF T.pages[d.node].tag = BasicLeaf THEN {}
                                    ELSE {"btree.cpp:79"})],
          done |-> FALSE, restarts |-> restarts]
    ELSE insertAtLeaf(T, key, payload, restarts, d, insert(T.pages[d.node], key, payload))

\* the body of BTree::insert after the size check; restarts counts the
\* recursive calls made so far.  done is FALSE when the call had not returned
\* after MaxRestarts restarts, or stopped at a throw.
BTree_insertLoop(T, key, payload, restarts) ==
    insertDescended(T, key, payload, restarts, descend(T.pages, T.root, key, NULL, NULL, 0, {}))

\* keyLength + payloadLength is an unsigned sum: it wraps at 2^32
BTree_insert(T, key, payload) ==
    IF U32(Len(key) + payload.len) > maxKVSize
    THEN [T |-> [T EXCEPT !.failed = @ \cup {"btree.cpp:62"}], done |-> FALSE, restarts |-> 0]
    ELSE BTree_insertLoop(T, key, payload, 0)

RECURSIVE BTree_removeLoop(_, _, _)

\* after parent->mergeChildrenCheck(pos) returned m.  targets lists the values
\* that mergeTarget has at "assert(mergeTarget == node)", one for each pass
\* that reaches the assertion.
removeRepeated(r, mergeTarget) == [r EXCEPT !.targets = <<mergeTarget>> \o @]

removeMerged(m, key, d, mergeTarget) ==
    IF m.ok /\ isUnderfull(m.T.pages[d.parent]) /\ d.parent # m.T.root
    THEN removeRepeated(BTree_removeLoop(m.T, key, d.parent), mergeTarget)
    ELSE [T |-> m.T, result |-> TRUE, targets |-> <<mergeTarget>>]

\* from assert(mergeTarget == node) on.  With a null parent the call
\* parent->mergeChildrenCheck(pos) does not touch the object and returns false.
removeMerge(T, key, d, mergeTarget) ==
    IF d.parent = NULL
    THEN [T |-> [T EXCEPT !.failed = @ \cup {"btree.cpp:98"}], result |-> TRUE,
          targets |-> <<mergeTarget>>]
    ELSE removeMerged(mergeChildrenCheck(T, d.parent, d.pos), key, d, mergeTarget)

\* after node->remove returned ok; T holds the node afterwards
removeLeaf(T, key, d, ok) ==
    IF ~ok THEN [T |-> T, result |-> FALSE, targets |-> <<>>]
    ELSE IF isUnderfull(T.pages[d.node]) THEN removeMerge(T, key, d, d.node)
    ELSE [T |-> T, result |-> TRUE, targets |-> <<>>]

\* BTree::remove from the label continueMerge on, after descend returned d
removeAtLeaf(T, key, mergeTarget, d, r) ==
    IF mergeTarget = NULL
    THEN removeLeaf(Put([T EXCEPT !.failed = @ \cup d.failed], d.node, r.node), key, d, r.ok)
    ELSE removeMerge([T EXCEPT !.failed = @ \cup d.failed
                                   \cup (IF mergeTarget = d.node THEN {} ELSE {"btree.cpp:97"})],
                     key, d, mergeTarget)

removeDescended(T, key, mergeTarget, d) ==
    removeAtLeaf(T, key, mergeTarget, d, remove(T.pages[d.node], key))

BTree_removeLoop(T, key, mergeTarget) ==
    removeDescended(T, key, mergeTarget,
                    descend(T.pages, T.root, key, mergeTarget, NULL, 0, {}))

BTree_remove(T, key) == BTree_removeLoop(T, key, NULL)

\* ------------------------------------------------------------------- destroy
RECURSIVE destroy(_, _)

\* the pages deleted by the destroy calls on the children of inner node id
destroyInner(pages, id) ==
    UNION {destroy(pages, getChild(pages[id], i)) : i \in 0..pages[id].count}

\* the pages deleted by BTreeNode::destroy on page id.  case BasicInner has no
\* break and falls through to "case BasicLeaf: return;", so "delete this" is
\* reached only with a tag that is neither of the two.
destroy(pages, id) ==
    IF pages[id].tag = BasicInner THEN destroyInner(pages, id)
    ELSE IF pages[id].tag = BasicLeaf THEN {}
    ELSE {id}


\* --------------------------------------------------------------------- inputs
\* Keys and payloads the calls are made with.  Long(b) is byte b followed by
\* LongTail filler bytes.  Short keys carry BigPayload or SmallPayload payload
\* bytes, long keys an empty payload, so every pair satisfies
\* keyLen + payloadLen <= maxKVSize and three to four entries fill a page.
\* The calls start either on the empty tree, with the keys FreshKeys, or on the
\* tree that the ascending inserts GrownSeq have built, with the keys
\* GrownKeys: there one more leaf split finds the root inner node full.
LongTail == 1022
FillByte == 65
BigPayload == 1000
SmallPayload == 500
NumVals == 2
MaxDups == 1
MaxOps == 5
\* pages the allocator can provide in all; a call of InsertShort finds
\* fewer than MaxShort of them left
MaxPages == 64
MaxShort == 3
GrownOps == 2

Long(b) == <<b>> \o [i \in 1..LongTail |-> FillByte]

\* short keys: a node holds more than hintCount * 2 of them.  The keys
\* LongHintKeys have five bytes and the same first four, so their heads are
\* equal and neighbouring hints repeat a head.
NumHintKeys == 56
HintByte == 104
LongHintKeys == 14..18
HintKeyBytes ==
    [i \in 1..NumHintKeys |->
        IF i \in LongHintKeys THEN <<HintByte, 14, 1, 1, i>> ELSE <<HintByte, i>>]

KeyBytes == << <<97>>, Long(98), <<99>>, Long(99), <<100>>, <<101>>,
              <<103>>, Long(104), <<105>>, Long(105), <<106>>, Long(106),
              <<107>>, Long(107), <<108>>, Long(108),
              <<>>, <<97>>, <<97, 98>>, <<97, 98, 97>>, <<97, 98, 97, 98>>,
              <<97, 98, 98>>, <<97, 98, 98, 97>>, <<98>> >> \o HintKeyBytes

FreshKeys == 1..6
GrownKeys == 7..16
\* keys with common prefixes, and the key of length 0
PrefixKeys == 17..24
HintKeys == 25..Len(KeyBytes)
GrownSeq == [i \in 1..9 |-> i + 6]
SmallKeys == {5, 9, 11, 13, 15}

\* the first key is inserted with NumVals different payloads of the same
\* length, the keys SmallKeys with a shorter payload
PayloadsOf(k) ==
    IF k \in PrefixKeys THEN {[len |-> BigPayload, val |-> 1]}
    ELSE IF Len(KeyBytes[k]) > 1 THEN {NoPayload}
    ELSE IF k \in SmallKeys THEN {[len |-> SmallPayload, val |-> 1]}
    ELSE {[len |-> BigPayload, val |-> v] : v \in 1..(IF k = 1 THEN NumVals ELSE 1)}

\* payload lengths that break the precondition keyLen + payloadLen <= maxKVSize
\* for every key
OversizePayloads == {[len |-> maxKVSize, val |-> 1], [len |-> UINT_MAX, val |-> 1]}

\* ---------------------------------------------------------------------- state
\* root, pages: the tree.  failed: assertions and throw statements reached.
\* model: the key -> payload map that the calls made so far describe.
\* ops: number of insert calls and of remove calls that returned true.  halted: the process stopped
\* in a throw, or a call is not followed further.  grown: the calls started on
\* the tree built by GrownSeq.  probe: the arguments a and b and the results ha and hb of
\* head called on its own (NoProbe in the specifications of the tree).
VARIABLES root, pages, failed, model, ops, halted, grown, probe

vars == <<root, pages, failed, model, ops, halted, grown, probe>>

\* no call of a function on its own has been made
NoProbe == [a |-> <<>>, b |-> <<>>, ha |-> StaleHead, hb |-> StaleHead]

Keys == IF grown THEN GrownKeys ELSE FreshKeys
OpsLeft == ops < (IF grown THEN GrownOps ELSE MaxOps)

\* the tree of the current state, with an allocator that does not fail
Tree == [root |-> root, pages |-> pages, failed |-> failed, limit |-> MaxPages]

\* the same tree when the allocator has m more pages to give
TreeShort(m) == [Tree EXCEPT !.limit = Cardinality(DOMAIN pages) + m]

RECURSIVE Reach(_, _, _)
\* pages reachable from the pages in todo through slot payloads and upper
Reach(pg, todo, seen) ==
    IF todo = {} THEN seen
    ELSE LET id == CHOOSE i \in todo : TRUE
             n == pg[id]
             kids == IF id \in DOMAIN pg /\ isInner(n)
                     THEN {getChild(n, i) : i \in 0..n.count} ELSE {}
         IN Reach(pg, (todo \cup (kids \cap DOMAIN pg)) \ (seen \cup {id}), seen \cup {id})

Reachable(T) == Reach(T.pages, {T.root}, {})

\* the live leaf slots, as <<page id, slot index>>
LeafSlots(T) ==
    UNION {{<<id, i>> : i \in 0..(T.pages[id].count - 1)} :
              id \in {j \in Reachable(T) : isLeaf(T.pages[j])}}

\* the keys stored in the leaves
LeafKeys(T) == {FullKey(T.pages[e[1]], e[2]) : e \in LeafSlots(T)}

\* number of leaf slots that repeat a key of another slot
DupSlots(T) == Cardinality(LeafSlots(T)) - Cardinality(LeafKeys(T))

\* the tree of a new BTree (root = makeLeaf)
EmptyTree == [root |-> 1, pages |-> (1 :> makeLeaf), failed |-> {}, limit |-> MaxPages]

RECURSIVE InsertAll(_, _, _)
\* BTree::insert of the keys seq[i..] in turn, each with its one payload, as
\* long as the calls return; r is the result of the call before
InsertAll(r, seq, i) ==
    IF i > Len(seq) \/ ~r.done \/ Fatal(r.T.failed) THEN r
    ELSE InsertAll(BTree_insert(r.T, KeyBytes[seq[i]], CHOOSE p \in PayloadsOf(seq[i]) : TRUE),
                   seq, i + 1)

\* the tree that the inserts GrownSeq build
GrownTree == InsertAll([T |-> EmptyTree, done |-> TRUE, restarts |-> 0], GrownSeq, 1)

Init ==
    /\ grown \in BOOLEAN
    /\ \E r \in {IF grown THEN GrownTree ELSE [T |-> EmptyTree, done |-> TRUE, restarts |-> 0]} :
          /\ pages = r.T.pages
          /\ root = r.T.root
          /\ failed = r.T.failed
          /\ halted = (~r.done \/ Fatal(r.T.failed))
    /\ model = IF grown
              THEN [k \in {GrownSeq[i] : i \in DOMAIN GrownSeq} |->
                       CHOOSE p \in PayloadsOf(k) : TRUE]
              ELSE <<>>
    /\ ops = 0
    /\ probe = NoProbe

\* BTree::insert(key, keyLength, payload, payloadLength)
Insert(k, payload) ==
    /\ ~halted
    /\ OpsLeft
    /\ DupSlots(Tree) + (IF KeyBytes[k] \in LeafKeys(Tree) THEN 1 ELSE 0) <= MaxDups
    /\ \E r \in {BTree_insert(Tree, KeyBytes[k], payload)} :
          /\ root' = r.T.root
          /\ pages' = r.T.pages
          /\ failed' = r.T.failed
          /\ halted' = (~r.done \/ Fatal(r.T.failed))
    /\ model' = [j \in DOMAIN model \cup {k} |-> IF j = k THEN payload ELSE model[j]]
    /\ ops' = ops + 1
    /\ UNCHANGED <<grown, probe>>

\* BTree::insert when the allocator has m pages left and the call needs more:
\* std::bad_alloc reaches the caller, which goes on using the tree
InsertShort(k, payload, m) ==
    /\ ~halted
    /\ OpsLeft
    /\ DupSlots(Tree) + (IF KeyBytes[k] \in LeafKeys(Tree) THEN 1 ELSE 0) <= MaxDups
    /\ \E r \in {BTree_insert(TreeShort(m), KeyBytes[k], payload)} :
          /\ "std::bad_alloc" \in r.T.failed
          /\ root' = r.T.root
          /\ pages' = r.T.pages
          /\ failed' = r.T.failed \ {"std::bad_alloc"}
          /\ halted' = Fatal(r.T.failed \ {"std::bad_alloc"})
    /\ ops' = ops + 1
    /\ UNCHANGED <<model, grown, probe>>

\* BTree::remove(key, keyLength)
Remove(k) ==
    /\ ~halted
    /\ OpsLeft
    /\ \E r \in {BTree_remove(Tree, KeyBytes[k])} :
          /\ root' = r.T.root
          /\ pages' = r.T.pages
          /\ failed' = r.T.failed
          /\ halted' = Fatal(r.T.failed)
          /\ ops' = IF r.result THEN ops + 1 ELSE ops
    /\ model' = [j \in DOMAIN model \ {k} |-> model[j]]
    /\ UNCHANGED <<grown, probe>>

\* BTree::lookup(key, keyLength, payloadSizeOut): the tree is only read
Lookup(k) ==
    /\ ~halted
    /\ \E r \in {BTree_lookup(Tree, KeyBytes[k])} :
          /\ failed' = failed \cup r.failed
          /\ halted' = Fatal(failed \cup r.failed)
    /\ UNCHANGED <<root, pages, model, ops, grown, probe>>

\* BTree::~BTree(): root->destroy().  pages keeps the pages that are still
\* allocated; the tree object is gone (root = NULL) and no call follows.
Destroy ==
    /\ ~halted
    /\ \E freed \in {destroy(pages, root)} :
          pages' = [id \in DOMAIN pages \ freed |-> pages[id]]
    /\ root' = NULL
    /\ halted' = TRUE
    /\ UNCHANGED <<failed, model, ops, grown, probe>>

Next ==
    \/ \E k \in Keys : \E payload \in PayloadsOf(k) : Insert(k, payload)
    \/ \E k \in Keys : \E payload \in OversizePayloads : Insert(k, payload)
    \/ \E k \in Keys : \E payload \in PayloadsOf(k) : \E m \in 0..(MaxShort - 1) :
          InsertShort(k, payload, m)
    \/ \E k \in Keys : Remove(k)
    \/ \E k \in Keys : Lookup(k)
    \/ Destroy

Spec == Init /\ [][Next]_vars

\* ------------------------------------------------- keys with common prefixes
\* The same calls with the keys PrefixKeys, which share prefixes of up to three
\* bytes and include the key of length 0.  They start on the empty tree or on
\* the tree that the inserts PrefixSeq have built, whose middle leaves have
\* fences with a common prefix (prefixLength > 0).
PrefixSeq == <<18, 19, 20, 22, 24>>

PrefixTree == InsertAll([T |-> EmptyTree, done |-> TRUE, restarts |-> 0], PrefixSeq, 1)

InitPrefix ==
    /\ grown = FALSE
    /\ \E built \in BOOLEAN :
          /\ \E r \in {IF built THEN PrefixTree
                       ELSE [T |-> EmptyTree, done |-> TRUE, restarts |-> 0]} :
                /\ pages = r.T.pages
                /\ root = r.T.root
                /\ failed = r.T.failed
                /\ halted = (~r.done \/ Fatal(r.T.failed))
          /\ model = IF built
                    THEN [k \in {PrefixSeq[i] : i \in DOMAIN PrefixSeq} |->
                             CHOOSE p \in PayloadsOf(k) : TRUE]
                    ELSE <<>>
    /\ ops = 0
    /\ probe = NoProbe

NextPrefix ==
    \/ \E k \in PrefixKeys : \E payload \in PayloadsOf(k) : Insert(k, payload)
    \/ \E k \in PrefixKeys : Remove(k)
    \/ \E k \in PrefixKeys : Lookup(k)
    \/ Destroy

SpecPrefix == InitPrefix /\ [][NextPrefix]_vars

\* ------------------------------------------------------------ nodes with hints
\* The same calls on a tree whose root leaf holds SmallNode or LargeNode
\* short keys, more than hintCount * 2, so that searchHint narrows the
\* search and updateHint updates the hints incrementally.  The calls use the
\* keys HintOpKeys, of which HintAbsent are not stored at the start.
SmallNode == 34
LargeNode == 49
HintOpKeys == {26, 29, 35, 44, 49, 54}
HintAbsent == {26, 35, 44, 54}

\* the first n keys of HintKeys \ HintAbsent in ascending order
HintSeq(n) ==
    [i \in 1..n |-> CHOOSE k \in HintKeys \ HintAbsent :
                        Cardinality({j \in HintKeys \ HintAbsent : j <= k}) = i]

HintTree(n) == InsertAll([T |-> EmptyTree, done |-> TRUE, restarts |-> 0], HintSeq(n), 1)

InitHint ==
    /\ grown = FALSE
    /\ \E n \in {SmallNode, LargeNode} :
          /\ \E r \in {HintTree(n)} :
                /\ pages = r.T.pages
                /\ root = r.T.root
                /\ failed = r.T.failed
                /\ halted = (~r.done \/ Fatal(r.T.failed))
          /\ model = [k \in {HintSeq(n)[i] : i \in 1..n} |-> CHOOSE p \in PayloadsOf(k) : TRUE]
    /\ ops = 0
    /\ probe = NoProbe

NextHint ==
    \/ \E k \in HintOpKeys : \E payload \in PayloadsOf(k) : Insert(k, payload)
    \/ \E k \in HintOpKeys : Remove(k)
    \/ \E k \in HintOpKeys : Lookup(k)

SpecHint == InitHint /\ [][NextHint]_vars

\* ------------------------------------------------------------------- merging
\* BTree::remove never reaches BasicNode::mergeChildrenCheck (the dispatcher
\* BTreeNode::mergeChildrenCheck returns false).  Here the calls of BTree are
\* mixed with direct calls of BasicNode::mergeChildrenCheck(pos) on the inner
\* nodes of the tree, for every pos <= count.  The calls start on the tree
\* PrefixTree, with the keys PrefixKeys, or on the tree of three levels that
\* the inserts MergeInserts and then the removes MergeRemoves have built, with
\* the keys GrownKeys: its inner nodes hold long separators and its leaves
\* are nearly empty, so that leaves and then inner nodes can be merged.
MergeInserts == GrownSeq \o <<16>>
MergeRemoves == <<7, 8, 10, 11, 12, 13, 14, 16>>

RECURSIVE RemoveAll(_, _, _)
\* BTree::remove of the keys seq[i..] in turn
RemoveAll(T, seq, i) ==
    IF i > Len(seq) \/ Fatal(T.failed) THEN T
    ELSE RemoveAll(BTree_remove(T, KeyBytes[seq[i]]).T, seq, i + 1)

MergeTree ==
    RemoveAll(InsertAll([T |-> EmptyTree, done |-> TRUE, restarts |-> 0], MergeInserts, 1).T,
              MergeRemoves, 1)

MergeKeys == IF grown THEN GrownKeys ELSE PrefixKeys

InnerPages == IF halted THEN {} ELSE {id \in Reachable(Tree) : isInner(pages[id])}

InitMerge ==
    /\ grown \in BOOLEAN
    /\ \E T \in {IF grown THEN MergeTree ELSE PrefixTree.T} :
          /\ pages = T.pages
          /\ root = T.root
          /\ failed = T.failed
          /\ halted = Fatal(T.failed)
    /\ model = [k \in (IF grown
                       THEN {MergeInserts[i] : i \in DOMAIN MergeInserts}
                                \ {MergeRemoves[i] : i \in DOMAIN MergeRemoves}
                       ELSE {PrefixSeq[i] : i \in DOMAIN PrefixSeq}) |->
                   CHOOSE p \in PayloadsOf(k) : TRUE]
    /\ ops = 0
    /\ probe = NoProbe

\* BasicNode::mergeChildrenCheck(pos) on the inner node parent
MergeChildrenCheck(parent, pos) ==
    /\ ~halted
    /\ \E r \in {BasicNode_mergeChildrenCheck(Tree, parent, pos)} :
          /\ pages' = r.T.pages
          /\ failed' = r.T.failed
          /\ halted' = Fatal(r.T.failed)
    /\ UNCHANGED <<root, model, ops, grown, probe>>

NextMerge ==
    \/ \E k \in MergeKeys : \E payload \in PayloadsOf(k) : Insert(k, payload)
    \/ \E k \in MergeKeys : Remove(k)
    \/ \E k \in MergeKeys : Lookup(k)
    \/ \E parent \in InnerPages : \E pos \in 0..pages[parent].count :
          MergeChildrenCheck(parent, pos)

SpecMerge == InitMerge /\ [][NextMerge]_vars

\* the same calls of mergeChildrenCheck mixed with the calls of Spec, on the
\* trees of Spec with their long keys
NextMergeFresh ==
    \/ \E k \in Keys : \E payload \in PayloadsOf(k) : Insert(k, payload)
    \/ \E k \in Keys : Remove(k)
    \/ \E k \in Keys : Lookup(k)
    \/ \E parent \in InnerPages : \E pos \in 0..pages[parent].count :
          MergeChildrenCheck(parent, pos)

SpecMergeFresh == Init /\ [][NextMergeFresh]_vars

\* ----------------------------------------------------------------- properties
\* The properties speak about the states in which the last call has returned
\* (~halted).  A call on the tree of the current state is written as the
\* operator applied to Tree.

\* the keys of the abstract map
ModelKeys == {KeyBytes[k] : k \in DOMAIN model}

\* key k is stored in a leaf
Present(k) == KeyBytes[k] \in LeafKeys(Tree)

\* the nodes of the tree
Nodes == {pages[id] : id \in Reachable(Tree)}

\* a BTree::insert call with result r returned to its caller
Returned(r) == r.done /\ ~Fatal(r.T.failed)

LookupAgrees(k) ==
    \E r \in {BTree_lookup(Tree, KeyBytes[k])} :
        IF k \in DOMAIN model THEN r.found /\ r.payload = model[k] ELSE ~r.found

RemoveAgrees(k) == BTree_remove(Tree, KeyBytes[k]).result = (k \in DOMAIN model)

\* C1: after every sequence of insert, remove and lookup calls the tree agrees
\* with the abstract map: the leaves store exactly the map's keys, lookup(k)
\* returns the map's payload for k or nothing when the map has no k, and
\* remove(k) returns true exactly for the keys of the map.
C1_AgreesWithMap ==
    ~halted => /\ LeafKeys(Tree) = ModelKeys
               /\ \A k \in Keys : LookupAgrees(k) /\ RemoveAgrees(k)

\* lookup(k) on the tree of r finds payload p
LookupFinds(T, k, p) ==
    \E l \in {BTree_lookup(T, KeyBytes[k])} : l.found /\ l.payload = p /\ ~Fatal(l.failed)

\* C2: in every tree state, for every key that no leaf stores and every payload,
\* once insert(k, v) has returned, lookup(k) returns v: same length, same bytes.
C2_InsertThenLookup ==
    ~halted => \A k \in Keys : \A p \in PayloadsOf(k) :
        ~Present(k) =>
            \E r \in {BTree_insert(Tree, KeyBytes[k], p)} :
                Returned(r) => LookupFinds(r.T, k, p)

\* C2 where the insert splits a leaf and then the full root inner node, and
\* makes a new root
C2_InsertSplitsInner ==
    /\ ~halted
    /\ isInner(pages[root])
    /\ \E k \in Keys : \E p \in PayloadsOf(k) :
          /\ ~Present(k)
          /\ \E r \in {BTree_insert(Tree, KeyBytes[k], p)} :
                /\ Returned(r)
                /\ r.T.root # root
                /\ Cardinality(DOMAIN r.T.pages) = Cardinality(DOMAIN pages) + 3
                /\ LookupFinds(r.T, k, p)

\* lookup(k) returns the same on the trees T and U
SameLookup(T, U, k) ==
    \E l \in {BTree_lookup(T, KeyBytes[k])} : \E m \in {BTree_lookup(U, KeyBytes[k])} :
        l.found = m.found /\ l.payload = m.payload

\* C3: remove of a key that is stored returns true, afterwards lookup of the
\* key finds nothing, and lookup of every other key returns what it returned
\* before.
C3_RemovePresent ==
    ~halted => \A k \in Keys :
        Present(k) =>
            \E r \in {BTree_remove(Tree, KeyBytes[k])} :
                /\ r.result
                /\ ~BTree_lookup(r.T, KeyBytes[k]).found
                /\ \A j \in Keys \ {k} : SameLookup(Tree, r.T, j)

\* C4: remove of a key that was never inserted, or was removed after its last
\* insert, returns false and leaves the root and every node as they were.
C4_RemoveAbsent ==
    ~halted => \A k \in Keys \ DOMAIN model :
        \E r \in {BTree_remove(Tree, KeyBytes[k])} :
            ~r.result /\ r.T.root = root /\ r.T.pages = pages

\* C5, for the calls made on a tree on which no assertion has failed, with a key
\* that no leaf stores: insert returns, after at most MaxRestarts restarts, and
\* the key is stored in a leaf.
C5_InsertTerminates ==
    (~halted /\ failed = {}) => \A k \in Keys : \A p \in PayloadsOf(k) :
        ~Present(k) =>
            \E r \in {BTree_insert(Tree, KeyBytes[k], p)} :
                r.done /\ KeyBytes[k] \in LeafKeys(r.T)

\* C6: after every insert and remove the truncated keys of consecutive slots
\* are strictly increasing in every node, so no node holds a key twice.
C6_StrictlyIncreasing ==
    ~halted => \A n \in Nodes : \A i \in 1..(n.count - 1) :
        KeyLess(slot(n, i - 1).key, slot(n, i).key)

KeyLeq(a, b) == a = b \/ KeyLess(a, b)

\* key lies in (lowerFence, upperFence] of n; an empty fence is no bound
InFences(n, key) ==
    /\ n.lowerFence.length = 0 \/ KeyLess(getLowerFence(n), key)
    /\ n.upperFence.length = 0 \/ KeyLeq(key, getUpperFence(n))

\* C7: after every insert and remove the full key of every slot of every node
\* is greater than the node's lower fence and at most its upper fence.
C7_WithinFences ==
    ~halted => \A n \in Nodes : \A i \in 0..(n.count - 1) : InFences(n, FullKey(n, i))

RECURSIVE SlotBytes(_, _)
\* keyLen + payloadLen summed over the slots i..count-1
SlotBytes(n, i) ==
    IF i >= n.count THEN 0
    ELSE slot(n, i).keyLen + slot(n, i).payloadLen + SlotBytes(n, i + 1)

\* C8: in every node spaceUsed is the sum of keyLen + payloadLen over the live
\* slots plus the lengths of the two fences.
C8_SpaceUsedIsSum ==
    ~halted => \A n \in Nodes :
        n.spaceUsed = SlotBytes(n, 0) + n.lowerFence.length + n.upperFence.length

\* C8 on a tree with split leaves where removeSlot has left dead bytes in a
\* leaf and the next insert into that leaf runs compactify
C8_AfterSplitAndRemove ==
    /\ ~halted
    /\ OpsLeft
    /\ isInner(pages[root])
    /\ \E k \in Keys : \E p \in PayloadsOf(k) :
          /\ ~Present(k)
          /\ \E d \in {descend(pages, root, KeyBytes[k], NULL, NULL, 0, {})} :
                /\ isLeaf(pages[d.node])
                /\ pages[d.node].count > 0
                /\ spaceNeeded(pages[d.node], Len(KeyBytes[k]), p.len).value
                      > freeSpace(pages[d.node])
                /\ spaceNeeded(pages[d.node], Len(KeyBytes[k]), p.len).value
                      <= freeSpaceAfterCompaction(pages[d.node])

\* the space assertions of copyKeyValueRange, storeKeyValue, insertFence and
\* FatSlot::validate
SpaceAssertions ==
    {"BasicNode.cpp:96", "BasicNode.cpp:115", "BasicNode.cpp:131", "BasicNode.cpp:136",
     "BasicNode.cpp:236", "FatSlot.h:27"}

\* slot array and heap of n do not overlap and every slot lies in the heap
LayoutOk(n) ==
    /\ slotEnd(n, n.count) <= n.dataOffset
    /\ \A i \in 0..(n.count - 1) :
          /\ slot(n, i).offset + slot(n, i).keyLen + slot(n, i).payloadLen <= pageSize
          /\ slot(n, i).offset >= n.dataOffset

\* C9, for the calls made on a tree on which no assertion has failed, with a key
\* that no leaf stores: no space assertion fails during insert, in the nodes of
\* the tree or in the scratch nodes, and every node keeps its layout.
C9_SpaceAssertionsHold ==
    (~halted /\ failed = {}) =>
        /\ \A n \in Nodes : LayoutOk(n)
        /\ \A k \in Keys : \A p \in PayloadsOf(k) :
              ~Present(k) => BTree_insert(Tree, KeyBytes[k], p).T.failed \cap SpaceAssertions = {}

\* the positions <<inner node, slot-or-upper>> that refer to page id
Refs(id) ==
    UNION {{<<q, j>> : j \in {i \in 0..pages[q].count : getChild(pages[q], i) = id}} :
              q \in {x \in Reachable(Tree) : isInner(pages[x])}}

\* C10: the pages reachable from root form a tree: every inner slot payload is
\* one child reference to an allocated page, every node but the root is
\* referred to from exactly one position, the root from none (so there are no
\* cycles), and every allocated page belongs to the tree.
C10_UniqueOwnership ==
    ~halted =>
        /\ \A id \in Reachable(Tree) \ {root} : Cardinality(Refs(id)) = 1
        /\ Refs(root) = {}
        /\ Reachable(Tree) = DOMAIN pages
        /\ \A id \in Reachable(Tree) :
              isInner(pages[id]) =>
                  /\ \A i \in 0..pages[id].count : getChild(pages[id], i) \in DOMAIN pages
                  /\ \A i \in 0..(pages[id].count - 1) :
                        slot(pages[id], i).payloadLen = childRefSize

\* C10 on a tree of three levels: the root inner node has been split
C10_AfterInnerSplit ==
    /\ ~halted
    /\ isInner(pages[root])
    /\ \E i \in 0..pages[root].count : isInner(pages[getChild(pages[root], i)])


\* the live leaf slots of T that hold the full key
SlotsHolding(T, key) == {e \in LeafSlots(T) : FullKey(T.pages[e[1]], e[2]) = key}

\* the leaf that the descent for key ends in
LeafOf(T, key) == descend(T.pages, T.root, key, NULL, NULL, 0, {}).node

\* C11: insert of a key that one leaf slot holds, with a payload of the same
\* length, overwrites in place: the call returns, the leaf's count is the same
\* as before, exactly one slot holds the key afterwards, and lookup returns the
\* new payload.
C11_OverwriteInPlace ==
    ~halted => \A k \in Keys : \A p \in PayloadsOf(k) :
        (Cardinality(SlotsHolding(Tree, KeyBytes[k])) = 1
         /\ BTree_lookup(Tree, KeyBytes[k]).payload.len = p.len) =>
            \E r \in {BTree_insert(Tree, KeyBytes[k], p)} :
                /\ Returned(r)
                /\ Cardinality(SlotsHolding(r.T, KeyBytes[k])) = 1
                /\ Cardinality(LeafSlots(r.T)) = Cardinality(LeafSlots(Tree))
                /\ LookupFinds(r.T, k, p)

\* C12: the key of length 0 is accepted.  In the leaf it is routed to (whose
\* prefixLength is 0) spaceNeeded is defined for keyLen = prefixLength and is
\* slotSize + (keyLen - prefixLength) + payloadLen; insert of the key, on a tree
\* on which no assertion has failed and that does not store it, fails no
\* assertion of spaceNeeded and returns, and lookup then returns the payload.
C12_EmptyKeyAccepted ==
    (~halted /\ failed = {}) => \A k \in PrefixKeys : \A p \in PayloadsOf(k) :
        (KeyBytes[k] = <<>> /\ ~Present(k)) =>
            /\ \E n \in {pages[LeafOf(Tree, KeyBytes[k])]} :
                  \E s \in {spaceNeeded(n, 0, p.len)} :
                      /\ n.prefixLength = 0
                      /\ s.failed = {}
                      /\ s.value = slotSize + (0 - n.prefixLength) + p.len
            /\ \E r \in {BTree_insert(Tree, KeyBytes[k], p)} :
                  /\ "BasicNode.cpp:221" \notin r.T.failed
                  /\ Returned(r)
                  /\ LookupFinds(r.T, k, p)

\* C13: after the destruction of the tree (~BTree, root->destroy()) no page
\* that the tree allocated is still allocated.
C13_DestroyFreesAll == root = NULL => DOMAIN pages = {}

\* C14: BTree::insert with keyLen + payloadLen > maxKVSize stops at the throw
\* statement of the size check, before the descent: root and every page are as
\* they were before the call.
C14_OversizeAborts ==
    ~halted => \A k \in Keys : \A p \in OversizePayloads :
        \E r \in {BTree_insert(Tree, KeyBytes[k], p)} :
            /\ "btree.cpp:62" \in r.T.failed
            /\ ~r.done
            /\ r.T.root = root
            /\ r.T.pages = pages

RECURSIVE Path(_, _, _)
\* the pages that the descent for key visits from page id on, the leaf included
Path(T, id, key) ==
    IF isInner(T.pages[id])
    THEN {id} \cup Path(T, getChild(T.pages[id], lowerBound(T.pages[id], key).pos), key)
    ELSE {id}

\* number of leading bytes that a and b have in common
CommonBytes(a, b) ==
    CHOOSE p \in 0..min(Len(a), Len(b)) :
        /\ Take(a, p) = Take(b, p)
        /\ p = min(Len(a), Len(b)) \/ a[p + 1] # b[p + 1]

\* key starts with the prefix of node n
SharesPrefix(n, key) ==
    Len(key) >= n.prefixLength /\ Take(key, n.prefixLength) = Take(getLowerFence(n), n.prefixLength)

ByteAt(key, i) == IF i <= Len(key) THEN key[i] ELSE 0

\* the first four bytes of key as a big-endian number, zero bytes past its end
HeadOf(key) ==
    ByteAt(key, 1) * 16777216 + ByteAt(key, 2) * 65536 + ByteAt(key, 3) * 256 + ByteAt(key, 4)

\* C16: in every node the head stored in every live slot is the head of the
\* truncated key the slot holds (whose length is the slot's keyLen), also for
\* the entries that a split or compactify copied into a node with a longer prefix.
C16_HeadOfTruncatedKey ==
    ~halted => \A n \in Nodes : \A i \in 0..(n.count - 1) :
        /\ slot(n, i).keyLen = Len(slot(n, i).key)
        /\ slot(n, i).head = HeadOf(slot(n, i).key)

\* C16 where the next insert splits a leaf and a half, with an entry copied
\* from the leaf, has a longer prefix than the leaf
C16_SplitGrowsPrefix ==
    /\ ~halted
    /\ ops > 0
    /\ OpsLeft
    /\ \E k \in PrefixKeys : \E p \in PayloadsOf(k) :
          /\ ~Present(k)
          /\ \E r \in {BTree_insert(Tree, KeyBytes[k], p)} :
                /\ Returned(r)
                /\ Cardinality(DOMAIN r.T.pages) > Cardinality(DOMAIN pages)
                /\ \E id \in DOMAIN r.T.pages :
                      /\ isLeaf(r.T.pages[id])
                      /\ r.T.pages[id].count >= 2
                      /\ r.T.pages[id].prefixLength
                            > pages[LeafOf(Tree, KeyBytes[k])].prefixLength
                      /\ r.T.pages[id].lowerFence.key # <<>>
                      /\ KeyLeq(getLowerFence(pages[LeafOf(Tree, KeyBytes[k])]),
                                getLowerFence(r.T.pages[id]))
                      /\ pages[LeafOf(Tree, KeyBytes[k])].upperFence.length = 0
                         \/ KeyLeq(getUpperFence(r.T.pages[id]),
                                   getUpperFence(pages[LeafOf(Tree, KeyBytes[k])]))

\* C17: in every node with more than hintCount * 2 slots, hint j (from 0) is
\* the head of slot dist * (j + 1), with dist = count / (hintCount + 1); this
\* holds after insert, which updates the hints from the insert position on, as
\* after the operations that rebuild all hints.
C17_HintsMatchSlots ==
    ~halted => \A n \in Nodes :
        n.count > hintCount * 2 =>
            \A j \in 0..(hintCount - 1) :
                n.hint[j + 1] = slot(n, (n.count \div (hintCount + 1)) * (j + 1)).head

\* C17 where the next insert leaves dist as it is and enters the key at a slot
\* from which updateHint keeps the first hints as they are
C17_IncrementalUpdate ==
    /\ ~halted
    /\ ops > 0
    /\ OpsLeft
    /\ \E k \in HintOpKeys :
          /\ ~Present(k)
          /\ \E n \in {pages[LeafOf(Tree, KeyBytes[k])]} :
                /\ n.count > hintCount * 2
                /\ n.count \div (hintCount + 1) = (n.count + 1) \div (hintCount + 1)
                /\ lowerBound(n, KeyBytes[k]).pos \div ((n.count + 1) \div (hintCount + 1)) > 1

\* ------------------------------------------------- consistency of a tree value
\* the nodes of tree value T
NodesOf(T) == {T.pages[id] : id \in Reachable(T)}

\* the structural invariants of a node, by their number in the specification
NodeInvariant(i, n) ==
    CASE i = 1 -> \A j \in 1..(n.count - 1) : KeyLess(slot(n, j - 1).key, slot(n, j).key)
      [] i = 2 -> \A j \in 0..(n.count - 1) : InFences(n, FullKey(n, j))
      [] i = 3 -> n.prefixLength = CommonBytes(getLowerFence(n), getUpperFence(n))
      [] i = 4 -> LayoutOk(n)
      [] i = 5 -> n.spaceUsed = SlotBytes(n, 0) + n.lowerFence.length + n.upperFence.length
      [] i = 6 -> \A j \in 0..(n.count - 1) : slot(n, j).head = HeadOf(slot(n, j).key)
      [] i = 7 -> n.count > hintCount * 2 =>
                     \A j \in 0..(hintCount - 1) :
                         n.hint[j + 1] = slot(n, (n.count \div (hintCount + 1)) * (j + 1)).head
      [] OTHER -> isInner(n) => \A j \in 0..(n.count - 1) : slot(n, j).payloadLen = childRefSize

\* the invariants that hold in every node of T
InvariantsOf(T) == {i \in 1..8 : \A n \in NodesOf(T) : NodeInvariant(i, n)}

\* the positions <<inner node, slot-or-upper>> of T that refer to page id
RefsIn(T, id) ==
    UNION {{<<q, j>> : j \in {i \in 0..T.pages[q].count : getChild(T.pages[q], i) = id}} :
              q \in {x \in DOMAIN T.pages : isInner(T.pages[x])}}

\* every child reference names an allocated page, every page but the root is
\* referred to once, the root never, and every allocated page is in the tree
Owned(T) ==
    /\ \A q \in DOMAIN T.pages : isInner(T.pages[q]) =>
          \A i \in 0..T.pages[q].count : getChild(T.pages[q], i) \in DOMAIN T.pages
    /\ \A id \in DOMAIN T.pages \ {T.root} : Cardinality(RefsIn(T, id)) = 1
    /\ RefsIn(T, T.root) = {}
    /\ Reachable(T) = DOMAIN T.pages

\* the entries of the leaves of T
LeafEntries(T) ==
    {<<FullKey(T.pages[e[1]], e[2]), slot(T.pages[e[1]], e[2]).payload>> : e \in LeafSlots(T)}

\* tree U holds what tree T holds
SameContent(T, U) ==
    /\ LeafEntries(T) = LeafEntries(U)
    /\ Cardinality(LeafSlots(T)) = Cardinality(LeafSlots(U))
    /\ \A j \in Keys : SameLookup(T, U, j)

\* r is the result of an insert call that ended in std::bad_alloc
AllocFailed(r) == "std::bad_alloc" \in r.T.failed

\* C18: when a page allocation fails during insert, the failure reaches the
\* caller, the tree holds the key->payload content it held before the call,
\* every structural invariant that held still holds and every page is owned
\* once; the root pointer is the one from before the call or the root of a
\* completed root split (an inner node with a separator), never a new root made
\* for a split whose sibling was not allocated.
C18_AllocFailureKeepsTree ==
    ~halted => \A k \in Keys : \A p \in PayloadsOf(k) : \A m \in 0..(MaxShort - 1) :
        \E r \in {BTree_insert(TreeShort(m), KeyBytes[k], p)} :
            AllocFailed(r) =>
                /\ ~r.done
                /\ Owned(r.T)
                /\ InvariantsOf(Tree) \subseteq InvariantsOf(r.T)
                /\ SameContent(Tree, r.T)
                /\ r.T.root = root \/ r.T.pages[r.T.root].count > 0

\* what holds of the calls of C18 in which no assertion fails: the failure
\* reaches the caller, content, invariants and ownership are kept, and when the
\* root pointer was replaced by a node without separators, that node's upper is
\* the old root and no page of the tree was changed
AllocFailureWithoutAssertion ==
    ~halted => \A k \in Keys : \A p \in PayloadsOf(k) : \A m \in 0..(MaxShort - 1) :
        \E r \in {BTree_insert(TreeShort(m), KeyBytes[k], p)} :
            r.T.failed = {"std::bad_alloc"} =>
                /\ ~r.done
                /\ Owned(r.T)
                /\ InvariantsOf(Tree) \subseteq InvariantsOf(r.T)
                /\ SameContent(Tree, r.T)
                /\ (r.T.root # root /\ r.T.pages[r.T.root].count = 0) =>
                      /\ r.T.pages[r.T.root].upper = root
                      /\ \A id \in DOMAIN pages : r.T.pages[id] = pages[id]

\* an insert into a one-leaf tree that makes a new root and then fails to
\* allocate the left sibling
HalfMadeRoot ==
    /\ ~halted
    /\ isLeaf(pages[root])
    /\ \E k \in Keys : \E p \in PayloadsOf(k) :
          \E r \in {BTree_insert(TreeShort(1), KeyBytes[k], p)} :
              /\ r.T.failed = {"std::bad_alloc"}
              /\ r.T.root # root
              /\ r.T.pages[r.T.root].count = 0

\* ------------------------------------------------------------------ lowerBound
\* smallest slot index of n whose full key is >= key, count if there is none,
\* and whether a slot holds key: by inspection of all slots
LinearScan(n, key) ==
    [pos |-> Cardinality({j \in 0..(n.count - 1) : KeyLess(FullKey(n, j), key)}),
     found |-> \E j \in 0..(n.count - 1) : FullKey(n, j) = key]

\* query keys: the keys of the calls, stored or not, the keys with equal heads,
\* the smallest and the largest key, and keys that are shorter, longer, below,
\* between and above them
QueryKeys ==
    {KeyBytes[k] : k \in HintOpKeys}
    \cup {HintKeyBytes[i] : i \in LongHintKeys \cup {1, NumHintKeys}}
    \cup {<<>>, <<HintByte>>, <<HintByte - 1>>, <<HintByte + 1>>, <<HintByte, 5, 0>>,
          <<HintByte, NumHintKeys + 1>>, <<HintByte, 14>>, <<HintByte, 14, 1>>,
          <<HintByte, 14, 1, 1>>, <<HintByte, 14, 1, 1, 0>>, <<HintByte, 14, 1, 1, 16, 0>>,
          <<HintByte, 14, 1, 1, 19>>, <<HintByte, 14, 1, 2>>}

\* the slots of n are in strictly increasing key order, every head is the head
\* of its key, and the hints sample the heads
SearchInvariants(n) == \A i \in {1, 6, 7} : NodeInvariant(i, n)

\* C19: for every node that satisfies the slot-order, head and hint invariants
\* and every query key with the node's prefix, lowerBound returns the smallest
\* slot index whose key is >= the query, count if there is none, and found is
\* set exactly when a slot holds the query: the result of a linear scan, with
\* more than hintCount * 2 slots (searchHint narrows the interval) and without.
C19_LowerBoundIsLinearScan ==
    ~halted => \A n \in Nodes : \A key \in QueryKeys :
        (SearchInvariants(n) /\ SharesPrefix(n, key)) =>
            \E lb \in {lowerBound(n, key)} :
                /\ lb.failed = {}
                /\ lb.pos = LinearScan(n, key).pos
                /\ lb.found = LinearScan(n, key).found

\* C19 where searchHint cuts the interval on both sides, passes hints that
\* repeat the head of the query, and the key is found
C19_HintNarrows ==
    /\ ~halted
    /\ ops > 0
    /\ \E n \in Nodes : \E key \in QueryKeys :
          /\ n.count > hintCount * 2
          /\ SearchInvariants(n)
          /\ \E h \in {searchHint(n, head(key, Len(key)), 0, n.count)} :
                /\ h.lower > 0
                /\ h.upper < n.count
                /\ h.upper - h.lower > 2 * (n.count \div (hintCount + 1))
          /\ lowerBound(n, key).found

\* ------------------------------------------------------ descent within fences
\* the throw statements of lowerBound's prefix check: key less than, greater
\* than, or shorter than the prefix
PrefixThrows == {"BasicNode.cpp:178", "BasicNode.cpp:180", "BasicNode.cpp:182"}

\* C20: in every lookup, insert and remove of every key, stored or not, proper
\* prefixes of stored keys included, every node that the descent visits, inner
\* or leaf, has the key in (lowerFence, upperFence], and no call reaches one of
\* the throw statements of lowerBound's prefix check.
C20_DescentWithinFences ==
    ~halted => \A k \in Keys :
        /\ \A id \in Path(Tree, root, KeyBytes[k]) : InFences(pages[id], KeyBytes[k])
        /\ BTree_lookup(Tree, KeyBytes[k]).failed \cap PrefixThrows = {}
        /\ BTree_remove(Tree, KeyBytes[k]).T.failed \cap PrefixThrows = {}
        /\ \A p \in PayloadsOf(k) :
              BTree_insert(Tree, KeyBytes[k], p).T.failed \cap PrefixThrows = {}

\* what holds of the calls of C20 on a tree on which no assertion has failed:
\* the key is within the fences of every node visited, and an insert reaches a
\* throw of the prefix check only after an assertion has failed in it
DescentWithoutAssertion ==
    (~halted /\ failed = {}) => \A k \in Keys :
        /\ \A id \in Path(Tree, root, KeyBytes[k]) : InFences(pages[id], KeyBytes[k])
        /\ BTree_lookup(Tree, KeyBytes[k]).failed = {}
        /\ BTree_remove(Tree, KeyBytes[k]).T.failed \cap PrefixThrows = {}
        /\ \A p \in PayloadsOf(k) :
              \E r \in {BTree_insert(Tree, KeyBytes[k], p)} :
                  r.T.failed \cap PrefixThrows # {} => "BasicNode.cpp:26" \in r.T.failed

\* ------------------------------------------------------------------- splitNode
\* node->splitNode(parent) on tree T: the two nodes before the call, the page
\* that nodeLeft gets, and the result r of the call
SplitResult(T, node, parent) ==
    [node |-> node, parent |-> parent, left |-> NewPage(T.pages),
     before |-> T.pages[node], parentBefore |-> T.pages[parent],
     r |-> BasicNode_splitNode(T, node, parent)]

\* the call node->splitNode(parent) that BTree::splitNode makes for the node
\* and parent that descend returned as d, after makeInner when there is no parent
DriverSplit(T, d) ==
    IF d.parent = NULL
    THEN SplitResult([T EXCEPT !.pages = SetPage(T.pages, NewPage(T.pages), makeInner(d.node)),
                               !.root = NewPage(T.pages)],
                     d.node, NewPage(T.pages))
    ELSE SplitResult(T, d.node, d.parent)

\* the call returned true and made the two siblings
SplitDone(s) == s.r.ok /\ ~Fatal(s.r.T.failed) /\ s.left \in DOMAIN s.r.T.pages

\* the entries of n in slot order, as <<full key, payload>>
Entries(n) == [j \in 1..n.count |-> <<FullKey(n, j - 1), slot(n, j - 1).payload>>]

\* C21: a successful leaf split at separator slot bestSlot puts the slots
\* [0, bestSlot + 1) into the new left sibling and the slots [bestSlot + 1, count)
\* into the surviving right page, in the same order and with the same full keys
\* and payloads: the pivot slot stays in the left leaf and no entry is lost or
\* duplicated.
C21_LeafSplitPartition ==
    ~halted => \A k \in PrefixKeys : \A p \in PayloadsOf(k) :
        \E d \in {descend(pages, root, KeyBytes[k], NULL, NULL, 0, {})} :
            (isLeaf(pages[d.node]) /\ ~insert(pages[d.node], KeyBytes[k], p).ok) =>
                \E s \in {DriverSplit(Tree, d)} :
                    SplitDone(s) =>
                        \E bestSlot \in {findSeparator(s.before).slot} :
                            /\ Entries(s.r.T.pages[s.left])
                                  = SubSeq(Entries(s.before), 1, bestSlot + 1)
                            /\ Entries(s.r.T.pages[s.node])
                                  = SubSeq(Entries(s.before), bestSlot + 2, s.before.count)

\* C21 where a leaf of three or more entries is split and a sibling gets a
\* longer prefix than the leaf had
C21_SplitTruncatesKeys ==
    /\ ~halted
    /\ ops > 0
    /\ \E k \in PrefixKeys : \E p \in PayloadsOf(k) :
          \E d \in {descend(pages, root, KeyBytes[k], NULL, NULL, 0, {})} :
              /\ isLeaf(pages[d.node])
              /\ pages[d.node].count >= 3
              /\ ~insert(pages[d.node], KeyBytes[k], p).ok
              /\ \E s \in {DriverSplit(Tree, d)} :
                    /\ SplitDone(s)
                    /\ s.r.T.failed = {}
                    /\ \E id \in {s.left, s.node} :
                          s.r.T.pages[id].prefixLength > s.before.prefixLength

\* the child references of inner node n
Children(n) == {getChild(n, i) : i \in 0..n.count}

\* the split of the parent that BTree::splitNode asks for through ensureSpace
\* when the split s found no room in the parent for its separator
ParentSplit(s, key) ==
    DriverSplit(s.r.T, descend(s.r.T.pages, s.r.T.root, key, s.parent, NULL, 0, {}))

\* what C22 says of the inner split s
InnerPartition(s) ==
    \E sep \in {findSeparator(s.before).slot} :
        \E left \in {s.r.T.pages[s.left]} : \E right \in {s.r.T.pages[s.node]} :
            /\ sep = s.before.count \div 2
            /\ Entries(left) = SubSeq(Entries(s.before), 1, sep)
            /\ left.upper = getChild(s.before, sep)
            /\ Entries(right) = SubSeq(Entries(s.before), sep + 2, s.before.count)
            /\ right.upper = s.before.upper
            /\ s.before.count = 1 + left.count + right.count
            /\ Children(left) \cup Children(right) = Children(s.before)
            /\ {Entries(s.r.T.pages[s.parent])[j] : j \in 1..s.r.T.pages[s.parent].count}
                  = {Entries(s.parentBefore)[j] : j \in 1..s.parentBefore.count}
                    \cup {<<FullKey(s.before, sep), [len |-> childRefSize, val |-> s.left]>>}
            /\ s.r.T.pages[s.parent].count = s.parentBefore.count + 1
            /\ s.r.T.pages[s.parent].upper = s.parentBefore.upper

\* C22: a successful inner split at slot s = count / 2 moves the separator key
\* of slot s up to the parent, paired with the new left sibling; the left
\* sibling gets the slots [0, s) and upper = child(s), the surviving right page
\* the slots [s + 1, count) and the original upper; count before is
\* 1 + left.count + right.count and the two siblings hold the child references
\* that the node held.
C22_InnerSplitPartition ==
    ~halted => \A k \in Keys : \A p \in PayloadsOf(k) :
        \E d \in {descend(pages, root, KeyBytes[k], NULL, NULL, 0, {})} :
            (isLeaf(pages[d.node]) /\ d.parent # NULL
             /\ ~insert(pages[d.node], KeyBytes[k], p).ok) =>
                \E s \in {DriverSplit(Tree, d)} :
                    (~s.r.ok /\ ~Fatal(s.r.T.failed)) =>
                        \E t \in {ParentSplit(s, KeyBytes[k])} :
                            (t.node = d.parent /\ SplitDone(t)) => InnerPartition(t)

\* C22 where the inner node split has three separators and a parent of its own
C22_SplitsInnerWithParent ==
    /\ ~halted
    /\ ops > 0
    /\ \E k \in Keys : \E p \in PayloadsOf(k) :
          \E d \in {descend(pages, root, KeyBytes[k], NULL, NULL, 0, {})} :
              /\ isLeaf(pages[d.node])
              /\ d.parent # NULL
              /\ d.parent # root
              /\ ~insert(pages[d.node], KeyBytes[k], p).ok
              /\ \E s \in {DriverSplit(Tree, d)} :
                    /\ ~s.r.ok
                    /\ \E t \in {ParentSplit(s, KeyBytes[k])} :
                          /\ t.node = d.parent
                          /\ t.before.count >= 3
                          /\ SplitDone(t)
                          /\ t.r.T.failed = {}

\* ------------------------------------------------------------------ separator
\* the byte strings shorter than len over the bytes of the keys PrefixKeys and
\* their two neighbours
SepAlphabet == 96..100
ShorterStrings(len) == UNION {[1..l -> SepAlphabet] : l \in 0..(len - 1)}

\* what C23 says of the separator that findSeparator and getSep give for leaf n
SeparatorShortest(n) ==
    \E info \in {findSeparator(n)} : \E sep \in {getSep(n, info)} :
        IF info.isTruncated = 1
        THEN \E lo \in {FullKey(n, info.slot)} : \E hi \in {FullKey(n, info.slot + 1)} :
                /\ info.length = n.prefixLength + CommonBytes(slot(n, info.slot).key,
                                                              slot(n, info.slot + 1).key) + 1
                /\ sep = Take(hi, info.length)
                /\ KeyLess(lo, sep)
                /\ KeyLess(sep, hi)
                /\ \A x \in ShorterStrings(Len(sep)) : ~(KeyLess(lo, x) /\ KeyLess(x, hi))
        ELSE sep = FullKey(n, info.slot) /\ info.length = Len(sep)

\* C23: when findSeparator returns a truncated separator for a leaf, its length
\* is prefixLength + common + 1 and its bytes are the first bytes of the full key
\* of slot bestSlot + 1; it is strictly greater than the full key of slot
\* bestSlot and strictly less than the full key of slot bestSlot + 1, and no
\* shorter byte string lies between these two keys.  When it is not truncated
\* the separator is the full key of slot bestSlot.
C23_SeparatorShortest ==
    ~halted => \A k \in PrefixKeys : \A p \in PayloadsOf(k) :
        \E d \in {descend(pages, root, KeyBytes[k], NULL, NULL, 0, {})} :
            (isLeaf(pages[d.node]) /\ pages[d.node].count > 0
             /\ ~insert(pages[d.node], KeyBytes[k], p).ok) =>
                SeparatorShortest(pages[d.node])

\* C23 where the separator of the leaf to split is truncated behind bytes that
\* the two keys have in common
C23_TruncatedBehindCommon ==
    /\ ~halted
    /\ ops > 0
    /\ \E k \in PrefixKeys : \E p \in PayloadsOf(k) :
          \E d \in {descend(pages, root, KeyBytes[k], NULL, NULL, 0, {})} :
              /\ isLeaf(pages[d.node])
              /\ ~insert(pages[d.node], KeyBytes[k], p).ok
              /\ \E info \in {findSeparator(pages[d.node])} :
                    /\ info.isTruncated = 1
                    /\ info.length > pages[d.node].prefixLength + 1

\* the separator of split s does not fit into its parent, not even after
\* compaction: slot, separator without the parent's prefix, and child reference
NoRoomInParent(s) ==
    slotSize + (findSeparator(s.before).length - s.parentBefore.prefixLength) + childRefSize
        > pageSize - (headerSize + slotSize * s.parentBefore.count) - s.parentBefore.spaceUsed

\* C24: when the parent cannot accommodate the separator, node.splitNode(parent)
\* returns false and changes nothing: no page is allocated, the root is the
\* same, and every page, the node and the parent among them, has the count,
\* slots, fences, spaceUsed, dataOffset and upper it had.
C24_RefusedSplitNoChange ==
    ~halted => \A k \in Keys : \A p \in PayloadsOf(k) :
        \E d \in {descend(pages, root, KeyBytes[k], NULL, NULL, 0, {})} :
            (isLeaf(pages[d.node]) /\ d.parent # NULL
             /\ ~insert(pages[d.node], KeyBytes[k], p).ok) =>
                \E s \in {DriverSplit(Tree, d)} :
                    /\ NoRoomInParent(s) <=> ~s.r.ok
                    /\ ~s.r.ok =>
                          /\ s.r.T.root = root
                          /\ s.r.T.pages = pages

\* C24 where a leaf split is refused by a parent with two or more separators
C24_ParentFull ==
    /\ ~halted
    /\ ops > 0
    /\ \E k \in Keys : \E p \in PayloadsOf(k) :
          \E d \in {descend(pages, root, KeyBytes[k], NULL, NULL, 0, {})} :
              /\ isLeaf(pages[d.node])
              /\ d.parent # NULL
              /\ ~insert(pages[d.node], KeyBytes[k], p).ok
              /\ \E s \in {DriverSplit(Tree, d)} :
                    /\ ~s.r.ok
                    /\ s.r.T.failed = {}
                    /\ s.parentBefore.count >= 2

\* the assertions of findSeparator and splitNode on count and on the separator
\* slot
SplitAssertions == {"BasicNode.cpp:264", "BasicNode.cpp:26", "BasicNode.cpp:27"}

\* C25: whenever an insert makes the driver call splitNode on a node, a leaf
\* whose insert found no room or a parent that could not take a separator, the
\* node has count > 1, findSeparator returns a slot with 0 < slot < count, and
\* none of assert(count > 1), assert(sepInfo.slot > 0), assert(sepInfo.slot <
\* count) fails.
C25_SplitAssertionsHold ==
    (~halted /\ failed = {}) => \A k \in Keys : \A p \in PayloadsOf(k) :
        \E d \in {descend(pages, root, KeyBytes[k], NULL, NULL, 0, {})} :
            (isLeaf(pages[d.node]) /\ ~insert(pages[d.node], KeyBytes[k], p).ok) =>
                /\ pages[d.node].count > 1
                /\ findSeparator(pages[d.node]).slot > 0
                /\ findSeparator(pages[d.node]).slot < pages[d.node].count
                /\ BTree_insert(Tree, KeyBytes[k], p).T.failed \cap SplitAssertions = {}

\* what holds of the splits of C25: the separator slot is below count, and it
\* is 0 only for a leaf of one or two entries
SplitSlotBelowCount ==
    (~halted /\ failed = {}) => \A k \in Keys : \A p \in PayloadsOf(k) :
        \E d \in {descend(pages, root, KeyBytes[k], NULL, NULL, 0, {})} :
            (isLeaf(pages[d.node]) /\ ~insert(pages[d.node], KeyBytes[k], p).ok) =>
                /\ pages[d.node].count > 0
                /\ findSeparator(pages[d.node]).slot < pages[d.node].count
                /\ findSeparator(pages[d.node]).slot = 0 => pages[d.node].count <= 2

\* the tree after node->remove(key) in BTree::remove, d being the descent
AfterLeafRemove(T, key, d) == Put(T, d.node, remove(T.pages[d.node], key).node)

\* the remove of the key leaves a leaf that is not the root underfull, and the
\* merge space bound of mergeChildrenCheck(pos) on its parent fits in a page
UnderfullAndFits(T, key, d) ==
    /\ d.parent # NULL
    /\ remove(T.pages[d.node], key).ok
    /\ isUnderfull(AfterLeafRemove(T, key, d).pages[d.node])
    /\ BasicNode_mergeChildrenCheck(AfterLeafRemove(T, key, d), d.parent, d.pos).ok

\* C26: when BTree::remove deletes a key from a leaf that is not the root and
\* leaves it underfull, the merge of that child with its right neighbour is
\* carried out whenever the merge space bound fits in one page: the parent
\* loses one separator slot, the left page is freed, and the surviving page
\* holds the entries of both children.
C26_UnderfullLeafMerged ==
    ~halted => \A k \in MergeKeys :
        \E d \in {descend(pages, root, KeyBytes[k], NULL, NULL, 0, {})} :
            UnderfullAndFits(Tree, KeyBytes[k], d) =>
                \E r \in {BTree_remove(Tree, KeyBytes[k])} :
                    /\ r.T.pages[d.parent].count = pages[d.parent].count - 1
                    /\ Cardinality(DOMAIN r.T.pages) = Cardinality(DOMAIN pages) - 1
                    /\ LeafEntries(r.T) = LeafEntries(AfterLeafRemove(Tree, KeyBytes[k], d))

\* what the code does in the removes of C26: nothing but the removal of the
\* slot from the leaf
UnderfullLeafStays ==
    ~halted => \A k \in MergeKeys :
        \E d \in {descend(pages, root, KeyBytes[k], NULL, NULL, 0, {})} :
            UnderfullAndFits(Tree, KeyBytes[k], d) =>
                BTree_remove(Tree, KeyBytes[k]).T = AfterLeafRemove(Tree, KeyBytes[k], d)

\* C27: BTree::remove never calls mergeChildrenCheck or isUnderfull on a
\* missing parent: when the root is a leaf and a successful remove leaves it
\* underfull, no merge is attempted and remove returns true.
C27_NoMergeOnMissingParent ==
    ~halted => \A k \in Keys :
        \E d \in {descend(pages, root, KeyBytes[k], NULL, NULL, 0, {})} :
            d.parent = NULL => "btree.cpp:98" \notin BTree_remove(Tree, KeyBytes[k]).T.failed \ failed

\* what holds of the removes of C27: the call on the missing parent changes
\* nothing but the removed slot, and remove returns true
RootLeafRemoveReturns ==
    ~halted => \A k \in Keys :
        \E d \in {descend(pages, root, KeyBytes[k], NULL, NULL, 0, {})} :
            \E r \in {BTree_remove(Tree, KeyBytes[k])} :
                (d.parent = NULL /\ remove(pages[root], KeyBytes[k]).ok) =>
                    /\ r.result
                    /\ r.T.root = root
                    /\ r.T.pages = Put(Tree, root, remove(pages[root], KeyBytes[k]).node).pages
                    /\ r.T.failed \ failed \subseteq {"btree.cpp:98"}
                    /\ isUnderfull(r.T.pages[root]) => "btree.cpp:98" \in r.T.failed
                    /\ "btree.cpp:98" \in r.T.failed \ failed => isUnderfull(r.T.pages[root])

\* the slot of the inner node n whose children mergeChildrenCheck(pos) merges
MergeSlot(n, pos) == IF pos = n.count /\ pos > 0 THEN pos - 1 ELSE pos

\* the call BasicNode::mergeChildrenCheck(pos) on the inner page parent of the
\* tree T: at is the slot whose children are merged, left and right are those
\* children, r is the result
MergeResult(T, parent, pos) ==
    [parent |-> parent, pos |-> pos, at |-> MergeSlot(T.pages[parent], pos),
     left |-> getChild(T.pages[parent], MergeSlot(T.pages[parent], pos)),
     right |-> getChild(T.pages[parent], MergeSlot(T.pages[parent], pos) + 1),
     r |-> BasicNode_mergeChildrenCheck(T, parent, pos)]

\* the calls of mergeChildrenCheck that can be made on the tree of this state
MergeCalls ==
    UNION {{MergeResult(Tree, parent, pos) : pos \in 0..pages[parent].count} :
              parent \in InnerPages}

\* the keys with which the routing of an inner node is probed
RouteKeys == DOMAIN KeyBytes \ HintKeys

\* the child of the inner node n to which the key is routed
RouteOf(n, key) == getChild(n, lowerBound(n, key).pos)

\* the node that the merge s left in the page of the right sibling
Merged(s) == s.r.T.pages[s.right]

\* the separator of the merged children with the left child's upper as its
\* payload, an entry of the merged node when the children are inner nodes
SeparatorEntry(s) ==
    IF isLeaf(pages[s.left]) THEN <<>>
    ELSE << <<FullKey(pages[s.parent], s.at),
              [len |-> childRefSize, val |-> pages[s.left].upper]>> >>

\* C28, the surviving page
MergedNodeJoins(s) ==
    /\ Merged(s).tag = pages[s.right].tag
    /\ getLowerFence(Merged(s)) = getLowerFence(pages[s.left])
    /\ getUpperFence(Merged(s)) = getUpperFence(pages[s.right])
    /\ Entries(Merged(s)) = Entries(pages[s.left]) \o SeparatorEntry(s) \o Entries(pages[s.right])
    /\ Merged(s).upper = pages[s.right].upper
    /\ Len(Merged(s).slots) = Merged(s).count

\* C28, the parent and the rest of the tree
MergedParentRoutes(s) ==
    /\ DOMAIN s.r.T.pages = DOMAIN pages \ {s.left}
    /\ \A id \in DOMAIN pages \ {s.left, s.right, s.parent} : s.r.T.pages[id] = pages[id]
    /\ s.r.T.root = root
    /\ s.r.T.pages[s.parent].count = pages[s.parent].count - 1
    /\ Entries(s.r.T.pages[s.parent])
          = Take(Entries(pages[s.parent]), s.at)
            \o [j \in 1..(pages[s.parent].count - s.at - 1) |->
                   <<Entries(pages[s.parent])[s.at + 1 + j][1],
                     IF j = 1 THEN [len |-> childRefSize, val |-> s.right]
                     ELSE Entries(pages[s.parent])[s.at + 1 + j][2]>>]
    /\ getLowerFence(s.r.T.pages[s.parent]) = getLowerFence(pages[s.parent])
    /\ getUpperFence(s.r.T.pages[s.parent]) = getUpperFence(pages[s.parent])
    /\ \A k \in RouteKeys :
          RouteOf(s.r.T.pages[s.parent], KeyBytes[k])
            = IF RouteOf(pages[s.parent], KeyBytes[k]) = s.left THEN s.right
              ELSE RouteOf(pages[s.parent], KeyBytes[k])
    /\ \A k \in RouteKeys : SameLookup(Tree, s.r.T, k)
    /\ s.r.T.failed \subseteq failed

\* C28: a successful merge leaves in the page of the right sibling a node with
\* the fences (left.lowerFence, right.upperFence) that holds, in key order, the
\* entries of left, then (inner nodes only) the parent's separator with
\* left.upper as its payload, then the entries of right, with upper =
\* right.upper and full keys and payloads unchanged; mergeChildrenCheck then
\* frees the left page and removes the slot pos of the parent, which routes
\* every key of both former children to the surviving page.
C28_MergeJoinsSiblings ==
    \A s \in MergeCalls : s.r.ok => MergedNodeJoins(s) /\ MergedParentRoutes(s)

\* what holds of the merges of C28: on every tree on which no assertion has
\* failed, a successful merge joins the siblings and keeps the routing
MergeWithoutAssertion ==
    failed = {} => \A s \in MergeCalls : s.r.ok => MergedNodeJoins(s) /\ MergedParentRoutes(s)

\* the merge space bound of the call s, from the header fields of the two
\* children and the separator of the parent: the space used by both, the slot
\* array for both counts, the growth of the keys of both under the prefix of
\* the fences (left.lowerFence, right.upperFence), and in inner nodes the space
\* for the separator
MergeBoundWith(s, p) ==
    U32(pages[s.left].spaceUsed + pages[s.right].spaceUsed
        + headerSize + slotSize * (pages[s.left].count + pages[s.right].count)
        + (pages[s.left].prefixLength - p) * pages[s.left].count
        + (pages[s.right].prefixLength - p) * pages[s.right].count
        + (IF isLeaf(pages[s.left]) THEN 0
           ELSE Len(FullKey(pages[s.parent], s.at)) - p + childRefSize + slotSize))

MergeBoundOf(s) ==
    MergeBoundWith(s, commonPrefixLen(getLowerFence(pages[s.left]), getUpperFence(pages[s.right])))

\* C29: when the merge space bound exceeds pageSize, mergeRightLeaf /
\* mergeRightInner return false and nothing is changed: the left node, the
\* right node and the parent are as before, no page is freed, and
\* mergeChildrenCheck returns false; mergeChildrenCheck on a parent with
\* count = 0 returns false without a change as well.
C29_RefusedMergeNoChange ==
    \A s \in MergeCalls :
        /\ pages[s.parent].count = 0 => ~s.r.ok
        /\ pages[s.parent].count > 0 => (s.r.ok <=> MergeBoundOf(s) <= pageSize)
        /\ ~s.r.ok => s.r.T = Tree

\* C29 where the merge of two leaves and the merge of two inner nodes are
\* refused and an inner node without separators is asked to merge
C29_BoundExceeded ==
    /\ \E s \in MergeCalls : pages[s.parent].count > 0 /\ isLeaf(pages[s.left])
                              /\ ~s.r.ok /\ MergeBoundOf(s) > pageSize
    /\ \E s \in MergeCalls : pages[s.parent].count > 0 /\ isInner(pages[s.left])
                              /\ ~s.r.ok /\ MergeBoundOf(s) > pageSize
    /\ \E s \in MergeCalls : pages[s.parent].count = 0 /\ ~s.r.ok

\* prefixLength of the scratch node of the merge s
MergePrefix(s) == commonPrefixLen(getLowerFence(pages[s.left]), getUpperFence(pages[s.right]))

\* C30: the merge space bound is conservative: whenever it is at most
\* pageSize, copying the entries of both nodes (and the separator) into the
\* scratch node never makes its slot array overlap its heap; leftGrow and
\* rightGrow are not negative, the scratch prefixLength being at most the
\* prefixLength of each child.
C30_MergeBoundConservative ==
    \A s \in MergeCalls : pages[s.parent].count > 0 =>
        /\ MergePrefix(s) <= pages[s.left].prefixLength
        /\ MergePrefix(s) <= pages[s.right].prefixLength
        /\ MergeBoundOf(s) <= pageSize =>
              /\ s.r.ok
              /\ s.r.T.failed \cap SpaceAssertions = {}
              /\ LayoutOk(Merged(s))
              /\ slotEnd(Merged(s), Merged(s).count) + Merged(s).spaceUsed <= MergeBoundOf(s)
              /\ Merged(s).prefixLength = MergePrefix(s)

\* what holds of the bound of C30: on every tree on which no assertion has
\* failed the scratch prefix is at most the prefix of each child, and a bound
\* of at most pageSize means that the merged node has room for all entries
MergeBoundWithoutAssertion ==
    failed = {} => \A s \in MergeCalls : pages[s.parent].count > 0 =>
        /\ MergePrefix(s) <= pages[s.left].prefixLength
        /\ MergePrefix(s) <= pages[s.right].prefixLength
        /\ MergeBoundOf(s) <= pageSize =>
              /\ s.r.ok
              /\ s.r.T.failed = {}
              /\ LayoutOk(Merged(s))
              /\ slotEnd(Merged(s), Merged(s).count) + Merged(s).spaceUsed <= MergeBoundOf(s)

\* a merge of leaves whose keys grow under the shorter prefix of the scratch
\* node
MergeGrowsKeys ==
    \E s \in MergeCalls : /\ s.r.ok
                          /\ \/ /\ pages[s.left].count > 0
                                /\ MergePrefix(s) < pages[s.left].prefixLength
                             \/ /\ pages[s.right].count > 0
                                /\ MergePrefix(s) < pages[s.right].prefixLength

\* ------------------------------------------------------- space within a node
\* sizes that requestSpaceFor is asked for: a slot with a short or a long key
\* and each payload length in use
Needs ==
    {slotSize + l + p : l \in {1, LongTail + 1},
                        p \in {0, childRefSize, SmallPayload, BigPayload}}

\* the logical content of a node
NodeContent(n) ==
    [tag |-> n.tag, lowerFence |-> getLowerFence(n), upperFence |-> getUpperFence(n),
     prefixLength |-> n.prefixLength, upper |-> n.upper, count |-> n.count,
     entries |-> Entries(n)]

\* what C31 says of requestSpaceFor(need) on node n
RequestSpaceOk(n, need) ==
    \E r \in {requestSpaceFor(n, need)} :
        /\ r.ok <=> need <= freeSpaceAfterCompaction(n)
        /\ need <= freeSpace(n) => r.node = n
        /\ (r.ok /\ need > freeSpace(n)) =>
              /\ NodeContent(r.node) = NodeContent(n)
              /\ freeSpace(r.node) >= need
        /\ r.node.count = n.count
        /\ r.node.dataOffset <= pageSize
        /\ slotEnd(r.node, r.node.count) + r.node.spaceUsed <= pageSize

\* C31: requestSpaceFor(need) returns true exactly when need is at most
\* freeSpaceAfterCompaction; when need is at most freeSpace the node is as
\* before; when it compacts, the logical content is as before and freeSpace is
\* at least need afterwards; count is unchanged and the page is not enlarged.
C31_RequestSpaceFor ==
    ~halted => \A n \in NodesOf(Tree) : \A need \in Needs : RequestSpaceOk(n, need)

\* a node with a hole in its heap that requestSpaceFor compacts
C31_CompactsForNeed ==
    ~halted /\ \E n \in NodesOf(Tree) : \E need \in Needs :
        /\ freeSpace(n) < need
        /\ need <= freeSpaceAfterCompaction(n)
        /\ n.count > 0
        /\ requestSpaceFor(n, need).ok
        /\ requestSpaceFor(n, need).node.dataOffset > n.dataOffset

\* ------------------------------------------------------------ node-level insert
\* the fields of a node, without the record of failed assertions
NodeFields(n) == [n EXCEPT !.failed = {}]

\* slotSize + (keyLen - prefixLength) + payloadLen
InsertNeed(n, key, p) == slotSize + (Len(key) - n.prefixLength) + p.len

\* the key is not shorter than the prefix of the node, as spaceNeeded and
\* storeKeyValue take for granted when they subtract prefixLength
KeyCoversPrefix(n, key) == Len(key) >= n.prefixLength

\* the sequence e without its element at index pos (from 0)
WithoutSlot(e, pos) == SubSeq(e, 1, pos) \o SubSeq(e, pos + 2, Len(e))

\* what C32 says of insert(key, p) on node n
NodeInsertOk(n, key, p) ==
    \E r \in {insert(n, key, p)} :
        /\ ~r.ok <=> InsertNeed(n, key, p) > freeSpaceAfterCompaction(n)
        /\ ~r.ok => NodeFields(r.node) = NodeFields(n)
        /\ r.ok =>
              /\ r.node.count = n.count + 1
              /\ r.node.spaceUsed = n.spaceUsed + (Len(key) - n.prefixLength) + p.len
              /\ \E pos \in 0..n.count :
                    /\ slot(r.node, pos).key = SubSeq(key, n.prefixLength + 1, Len(key))
                    /\ slot(r.node, pos).payload = p
                    /\ WithoutSlot(Entries(r.node), pos) = Entries(n)

\* C32: insert of a key that is not shorter than the node's prefix, on the leaf
\* that the descent for the key ends in, returns false exactly when
\* slotSize + (keyLen - prefixLength) + payloadLen exceeds
\* freeSpaceAfterCompaction, and then every field of the node is as before;
\* when it returns true, count has grown by one, spaceUsed by
\* (keyLen - prefixLength) + payloadLen, one slot holds the key behind the
\* node's prefix with the payload, and the other slots hold the same entries in
\* the same order.
C32_NodeInsert ==
    ~halted => \A k \in RouteKeys : \A p \in PayloadsOf(k) :
        KeyCoversPrefix(pages[LeafOf(Tree, KeyBytes[k])], KeyBytes[k])
            => NodeInsertOk(pages[LeafOf(Tree, KeyBytes[k])], KeyBytes[k], p)

\* leaves with dead bytes in the heap: one refuses an insert, one compacts and
\* takes the entry in front of a slot it holds
C32_RefusesAndCompacts ==
    /\ ~halted
    /\ \E k \in RouteKeys : \E p \in PayloadsOf(k) :
          \E n \in {pages[LeafOf(Tree, KeyBytes[k])]} :
              /\ KeyCoversPrefix(n, KeyBytes[k])
              /\ freeSpace(n) < freeSpaceAfterCompaction(n)
              /\ ~insert(n, KeyBytes[k], p).ok
    /\ \E k \in RouteKeys : \E p \in PayloadsOf(k) :
          \E n \in {pages[LeafOf(Tree, KeyBytes[k])]} :
              /\ KeyCoversPrefix(n, KeyBytes[k])
              /\ freeSpace(n) < InsertNeed(n, KeyBytes[k], p)
              /\ insert(n, KeyBytes[k], p).ok
              /\ lowerBound(n, KeyBytes[k]).pos < n.count

\* ------------------------------------------------------------------ compaction
\* what C33 says of compactify on node n
CompactifyOk(n) ==
    \E c \in {compactify(n)} :
        /\ NodeContent(c) = NodeContent(n)
        /\ freeSpace(c) = freeSpaceAfterCompaction(n)
        /\ "BasicNode.cpp:168" \notin c.failed

\* C33: compactify leaves tag, fences, prefixLength, upper, count and every
\* slot's full key and payload, in the same order, as they were, and reclaims
\* all dead heap bytes: freeSpace afterwards is the freeSpaceAfterCompaction of
\* before, so assert(freeSpace() == should) does not fail.
C33_CompactifyPreserves ==
    ~halted => \A n \in NodesOf(Tree) : CompactifyOk(n)

\* a leaf in which removes have left dead bytes between live entries
C33_HolesAfterRemove ==
    /\ ~halted
    /\ \E n \in NodesOf(Tree) :
          /\ isLeaf(n)
          /\ n.count > 1
          /\ freeSpace(n) < freeSpaceAfterCompaction(n)
          /\ \E i \in 0..(n.count - 2) :
                slot(n, i).offset # slot(n, i + 1).offset + slot(n, i + 1).keyLen
                                      + slot(n, i + 1).payloadLen
                /\ slot(n, i).offset > slot(n, i + 1).offset
          /\ compactify(n).dataOffset > n.dataOffset

\* ------------------------------------------------------------- copying entries
\* a scratch node of the kind of n with the fences lo and hi
Scratch(n, lo, hi) == setFences(BasicNode(isLeaf(n)), lo, hi)

\* lower and upper fences of a destination for the slots [a, a + c) of n: none,
\* the fence of n, or the key next to the range
DstLowers(n, a) == {<<>>, getLowerFence(n)} \cup (IF a > 0 THEN {FullKey(n, a - 1)} ELSE {})
DstUppers(n, a, c) == {<<>>, getUpperFence(n)} \cup (IF c > 0 THEN {FullKey(n, a + c - 1)} ELSE {})

\* calls copyKeyValueRange(dst, dstSlot, srcSlot, c) on node n: into an empty
\* destination, and behind the slots [0, a) that a call before has copied
CopyCalls(n) ==
    UNION {UNION {{[src |-> n, dst |-> Scratch(n, lo, hi), dstSlot |-> 0, srcSlot |-> a, c |-> c] :
                      lo \in DstLowers(n, a), hi \in DstUppers(n, a, c)}
                  \cup {[src |-> n,
                         dst |-> copyKeyValueRange(n, Scratch(n, lo, hi), 0, 0, a),
                         dstSlot |-> a, srcSlot |-> a, c |-> c] :
                           lo \in {<<>>, getLowerFence(n)}, hi \in {<<>>, getUpperFence(n)}} :
                  c \in 0..(n.count - a)} : a \in 0..n.count}

RECURSIVE StoredBytes(_, _, _, _)
\* the heap bytes of the entries srcSlot .. srcSlot + c - 1 under the prefix of dst
StoredBytes(src, dst, srcSlot, c) ==
    IF c = 0 THEN 0
    ELSE Len(FullKey(src, srcSlot)) - dst.prefixLength + slot(src, srcSlot).payloadLen
         + StoredBytes(src, dst, srcSlot + 1, c - 1)

\* the destination's prefix starts every key of the range and the entries fit
\* behind the slot array
CopyFits(x) ==
    /\ x.dst.failed = {}
    /\ \A i \in 0..(x.c - 1) : SharesPrefix(x.dst, FullKey(x.src, x.srcSlot + i))
    /\ slotEnd(x.dst, x.dst.count + x.c) + StoredBytes(x.src, x.dst, x.srcSlot, x.c)
          <= x.dst.dataOffset

\* what C34 says of the call x
CopyOk(x) ==
    \E r \in {copyKeyValueRange(x.src, x.dst, x.dstSlot, x.srcSlot, x.c)} :
        /\ \A i \in 0..(x.c - 1) :
              /\ FullKey(r, x.dstSlot + i) = FullKey(x.src, x.srcSlot + i)
              /\ slot(r, x.dstSlot + i).payload = slot(x.src, x.srcSlot + i).payload
              /\ slot(r, x.dstSlot + i).payloadLen = slot(x.src, x.srcSlot + i).payloadLen
              /\ slot(r, x.dstSlot + i).keyLen = Len(slot(r, x.dstSlot + i).key)
        /\ \A i \in 0..(x.dstSlot - 1) : slot(r, i) = slot(x.dst, i)
        /\ r.count = x.dst.count + x.c
        /\ r.spaceUsed = x.dst.spaceUsed + StoredBytes(x.src, x.dst, x.srcSlot, x.c)
        /\ r.dataOffset = x.dst.dataOffset - StoredBytes(x.src, x.dst, x.srcSlot, x.c)
        /\ r.prefixLength = x.dst.prefixLength
        /\ r.failed \cap {"BasicNode.cpp:96", "BasicNode.cpp:131", "BasicNode.cpp:136",
                          "BasicNode.cpp:115"} = {}

HeadMaxLen == 5
HeadBytes == {0, 1, 127}

RECURSIVE Strings(_)
\* the strings of at most n bytes
Strings(n) ==
    IF n = 0 THEN {<<>>}
    ELSE Strings(n - 1)
         \cup {Append(s, b) : s \in {t \in Strings(n - 1) : Len(t) = n - 1}, b \in HeadBytes}

HeadKeys == Strings(HeadMaxLen)

InitHead ==
    /\ root = EmptyTree.root
    /\ pages = EmptyTree.pages
    /\ failed = {}
    /\ model = <<>>
    /\ ops = 0
    /\ halted = FALSE
    /\ grown = FALSE
    /\ probe \in [a : HeadKeys, b : HeadKeys, ha : {StaleHead}, hb : {StaleHead}]

\* head(key, keyLength) of both strings
TakeHeads ==
    /\ probe.ha = StaleHead
    /\ probe' = [probe EXCEPT !.ha = head(probe.a, Len(probe.a)),
                              !.hb = head(probe.b, Len(probe.b))]
    /\ UNCHANGED <<root, pages, failed, model, ops, halted, grown>>

NextHead == TakeHeads

SpecHead == InitHead /\ [][NextHead]_vars

\* C35: head is order-preserving on byte strings: for all strings A and B of
\* at most HeadMaxLen bytes, head(A) < head(B) implies that A is before B in
\* the byte-wise lexicographic order, A <= B implies head(A) <= head(B), and
\* two strings of the same length of at most 4 with equal heads are equal.
C35_HeadOrderPreserving ==
    probe.ha # StaleHead =>
        /\ probe.ha < probe.hb => KeyLess(probe.a, probe.b)
        /\ KeyLeq(probe.a, probe.b) => probe.ha <= probe.hb
        /\ (Len(probe.a) = Len(probe.b) /\ Len(probe.a) <= 4 /\ probe.ha = probe.hb) =>
              probe.a = probe.b

\* heads that differ in their third byte only, of a string of 3 bytes and a
\* longer one
C35_HeadsDifferInThirdByte ==
    /\ probe.ha # StaleHead
    /\ probe.ha < probe.hb
    /\ Len(probe.a) = 3
    /\ Len(probe.b) > 4
    /\ Take(probe.a, 2) = Take(probe.b, 2)
    /\ probe.a[1] # probe.a[2]

\* ---------------------------------------------------------------------- height
RECURSIVE DepthsFrom(_, _, _)
\* the depths of the leaves below page id, which is at depth d
DepthsFrom(pg, id, d) ==
    IF isLeaf(pg[id]) THEN {d}
    ELSE UNION {DepthsFrom(pg, getChild(pg[id], i), d + 1) : i \in 0..pg[id].count}

LeafDepths(T) == DepthsFrom(T.pages, T.root, 0)

\* all leaves of T are at the same depth
Balanced(T) == Cardinality(LeafDepths(T)) = 1

Height(T) == CHOOSE d \in LeafDepths(T) : \A e \in LeafDepths(T) : e <= d

\* the tree is there and the calls are followed
Live == ~halted /\ root # NULL

\* a step of the tree: the height stays or grows by one, and it grows exactly
\* when the root is replaced, by an inner node whose upper is the old root
HeightStep ==
    (Live /\ Live') =>
        /\ Height(Tree)' \in {Height(Tree), Height(Tree) + 1}
        /\ Height(Tree)' = Height(Tree) + 1 <=> root' # root
        /\ root' # root => /\ isInner(pages'[root'])
                           /\ pages'[root'].upper = root

\* C36: after every call all leaves are at the same depth; the height of the
\* tree changes only when the root is split, it then grows by one and the new
\* root is an inner node whose upper is the old root; splits below the root
\* and merges leave the depth of every leaf as it is.
C36_LeavesAtSameDepth == [](Live => Balanced(Tree)) /\ [][HeightStep]_vars

\* a tree on which one insert splits the root, another splits a leaf below the
\* root only, and a merge of two children succeeds
C36_RootSplitAndMerge ==
    /\ Live
    /\ \E k \in MergeKeys : \E p \in PayloadsOf(k) :
          \E r \in {BTree_insert(Tree, KeyBytes[k], p)} :
              /\ Returned(r)
              /\ r.T.root # root
              /\ Height(r.T) = Height(Tree) + 1
    /\ \E k \in MergeKeys : \E p \in PayloadsOf(k) :
          \E r \in {BTree_insert(Tree, KeyBytes[k], p)} :
              /\ Returned(r)
              /\ r.T.root = root
              /\ Cardinality(DOMAIN r.T.pages) > Cardinality(DOMAIN pages)
    /\ \E s \in MergeCalls : s.r.ok

\* ---------------------------------------------------------------------- fences
\* separator i of inner node n as a full key; the fences of n at both ends
SepOrFence(n, i) ==
    IF i < 0 THEN getLowerFence(n)
    ELSE IF i >= n.count THEN getUpperFence(n)
    ELSE FullKey(n, i)

\* child i of inner node n (i = count: upper) has the fences that n gives it
ChildFencesOk(T, n, i) ==
    \E c \in {T.pages[getChild(n, i)]} :
        /\ getLowerFence(c) = SepOrFence(n, i - 1)
        /\ getUpperFence(c) = SepOrFence(n, i)
        /\ c.lowerFence.length = Len(getLowerFence(c))
        /\ c.upperFence.length = Len(getUpperFence(c))

FencesConsistent(T) ==
    /\ T.pages[T.root].lowerFence.length = 0
    /\ T.pages[T.root].upperFence.length = 0
    /\ T.pages[T.root].prefixLength = 0
    /\ \A n \in {m \in NodesOf(T) : isInner(m)} : \A i \in 0..n.count : ChildFencesOk(T, n, i)

\* C37: after every call the root's fences are empty and its prefixLength is 0,
\* and for every inner node child i has the lower fence separator i - 1 (the
\* node's lower fence for i = 0) and the upper fence separator i, and the upper
\* child has the lower fence separator count - 1 (the node's lower fence when
\* count = 0) and the node's upper fence.
C37_FencesConsistent == Live => FencesConsistent(Tree)

\* what holds of the fences of C37: they are consistent on every tree on which
\* no assertion has failed
FencesWithoutAssertion == (Live /\ failed = {}) => FencesConsistent(Tree)

\* ------------------------------------------------------- separator of a large leaf
\* A root leaf of more than 16 entries that is full, and the insert that splits
\* it.  The leaf holds count keys of four bytes; the keys of the slots below
\* drop p1 have three bytes in common with the key of slot 0, those below
\* drop p2 two, the others one.  The payload length is such that the count
\* entries fill the page.
SepMaxCount == 49
SepCounts == {c \in 17..SepMaxCount : c % 16 \in {0, 1, 15}}

SepWindow(count) == ((count \div 2) - (count \div 16))..((count \div 2) - 1)

\* the drops: next to the ends of the leaf and in and around the window
SepDrops(count) ==
    {1, count} \cup {i \in 1..count : \E w \in SepWindow(count) : i - w \in -1..2}

SepKey(i, p1, p2) ==
    IF i < p1 THEN <<HintByte, 1, 1, i>>
    ELSE IF i < p2 THEN <<HintByte, 1, 2, i>>
    ELSE <<HintByte, 2, 2, i>>

SepPayload(count) == [len |-> ((pageSize - headerSize) \div count) - slotSize - 4, val |-> 1]

RECURSIVE FillLeaf(_, _, _, _, _)
\* BTree::insert of the keys i .. count - 1 in turn, as long as the calls return
FillLeaf(T, count, p1, p2, i) ==
    IF i >= count \/ Fatal(T.failed) THEN T
    ELSE FillLeaf(BTree_insert(T, SepKey(i, p1, p2), SepPayload(count)).T, count, p1, p2, i + 1)

InitSep ==
    /\ \E count \in SepCounts : \E p1 \in SepDrops(count) :
          \E p2 \in {p \in SepDrops(count) : p >= p1} :
              \E T \in {FillLeaf(EmptyTree, count, p1, p2, 0)} :
                  /\ root = T.root
                  /\ pages = T.pages
                  /\ failed = T.failed
                  /\ model = [i \in 1..count |-> SepPayload(count)]
    /\ ops = 0
    /\ halted = FALSE
    /\ grown = FALSE
    /\ probe = NoProbe

\* BTree::insert of one more key behind the others: the root leaf is full and
\* is split at the slot that findSeparator returns
SplitLargeLeaf ==
    /\ ops = 0
    /\ isLeaf(pages[root])
    /\ \E n \in {pages[root]} :
          /\ ~insert(n, SepKey(n.count, n.count, n.count), SepPayload(n.count)).ok
          /\ \E r \in {BTree_insert(Tree, SepKey(n.count, n.count, n.count), SepPayload(n.count))} :
                /\ root' = r.T.root
                /\ pages' = r.T.pages
                /\ failed' = r.T.failed
                /\ halted' = (~r.done \/ Fatal(r.T.failed))
                /\ model' = model \o <<SepPayload(n.count)>>
    /\ ops' = 1
    /\ UNCHANGED <<grown, probe>>

NextSep == SplitLargeLeaf

SpecSep == InitSep /\ [][NextSep]_vars

\* bytes that the truncated keys of slot i and slot 0 of n have in common
CommonWithFirst(n, i) == CommonBytes(slot(n, i).key, slot(n, 0).key)

\* the lowest number of the non-empty set S
Lowest(S) == CHOOSE i \in S : \A j \in S : i <= j

\* a leaf of more than 16 entries, before it is split
LargeLeaf == ops = 0 /\ isLeaf(pages[root]) /\ pages[root].count > 16

\* C38 as stated: for a leaf with count > 16 findSeparator returns as split
\* slot the lowest index of the window [count/2 - count/16, count/2) whose
\* commonPrefix(slot, 0) equals the maximum of commonPrefix(., 0) over the window.
C38_SeparatorSlotOfMaximum ==
    LargeLeaf => \E n \in {pages[root]} : \E W \in {SepWindow(n.count)} :
        findSeparator(n).slot
            = Lowest({i \in W : \A j \in W : CommonWithFirst(n, j) <= CommonWithFirst(n, i)})

\* C38, amended: for a leaf with count > 16 and the window
\* [lower, upper) = [count/2 - count/16, count/2), findSeparator returns as
\* split slot lower when commonPrefix(lower, 0) = commonPrefix(upper - 1, 0),
\* and otherwise the lowest index of the window whose commonPrefix(., 0)
\* differs from commonPrefix(lower, 0): the first slot behind the slots that
\* share the longest prefix with slot 0.
C38_SeparatorSlotAtPrefixChange ==
    LargeLeaf => \E n \in {pages[root]} : \E W \in {SepWindow(n.count)} :
        \E lower \in {Lowest(W)} :
            /\ findSeparator(n).slot \in W
            /\ findSeparator(n).slot
                  = IF \A j \in W : CommonWithFirst(n, j) = CommonWithFirst(n, lower)
                    THEN lower
                    ELSE Lowest({i \in W : CommonWithFirst(n, i) # CommonWithFirst(n, lower)})

\* a leaf whose window holds three slots, the first two with the same common
\* prefix and the third with a shorter one: the split slot is the third
C38_PrefixChangesInWindow ==
    /\ LargeLeaf
    /\ \E n \in {pages[root]} : \E W \in {SepWindow(n.count)} :
          /\ Cardinality(W) = 3
          /\ CommonWithFirst(n, Lowest(W)) = CommonWithFirst(n, Lowest(W) + 1)
          /\ CommonWithFirst(n, Lowest(W) + 2) < CommonWithFirst(n, Lowest(W))
          /\ findSeparator(n).slot = Lowest(W) + 2

\* ------------------------------------------------------------------- C39
\* the nodes from id down to the leaf to which the key is routed
RECURSIVE PathSeq(_, _, _)
PathSeq(T, id, key) ==
    IF isInner(T.pages[id])
    THEN <<id>> \o PathSeq(T, getChild(T.pages[id], lowerBound(T.pages[id], key).pos), key)
    ELSE <<id>>

\* the merge targets ts of one call climb the path p from its leaf: the first
\* is the leaf, each later one is the parent of the one before and is not
\* the root
TargetsClimb(ts, p, rt) ==
    /\ Len(ts) <= Len(p)
    /\ \A i \in 1..Len(ts) : ts[i] = p[Len(p) + 1 - i]
    /\ \A i \in 2..Len(ts) : ts[i] # rt

\* the call r of BTree::remove on the tree T returned after as many passes as
\* the path of the key has nodes, at most; it repeated only after a merge that
\* freed a page; and it returned true unless the leaf does not hold the key
RemoveLoopOk(T, key, r) ==
    /\ TargetsClimb(r.targets, PathSeq(T, T.root, key), T.root)
    /\ Len(r.targets) > 1 => DOMAIN r.T.pages # DOMAIN T.pages
    /\ r.result = remove(T.pages[LeafOf(T, key)], key).ok

====
